---- MODULE Spec2Model ----
(***************************************************************************)
(* Sampling-and-capture core of the ESP32 temperature logger               *)
(* (src/Temp_logger.ino): the 1 Hz timer ISR onTimer, the acquisition task *)
(* dataTestProcess with runSingleCheck, and the web task: its connection   *)
(* loop webServerProcess, the pages it sends and processUrlCommands, which *)
(* applies a POST /config command.                                         *)
(*                                                                         *)
(* The three run concurrently (the two tasks are created without core      *)
(* affinity, the ISR preempts either), so each task is modelled statement  *)
(* by statement with a program counter.  The only critical section in the  *)
(* code (timerMux) protects the two counter increments in onTimer and the  *)
(* single store timetickCounter = 0 of the reset command; every other      *)
(* shared access is unsynchronised.  Where the acquisition task may keep a *)
(* non-volatile global in a register across statements (vDataArrayIdx,     *)
(* TimeReadTick) the model lets each later use take either the register or *)
(* the value in memory.                                                    *)
(***************************************************************************)
EXTENDS Integers, Sequences, FiniteSets, TLC

\* ---------------------------------------------------------------- constants

\* #define MEAS_INTERVAL 18, scaled down with the tick range
MEAS_INTERVAL == 2

\* #define DATA_ARRAY_SIZE 10000, scaled down to keep the state space finite
DATA_ARRAY_SIZE == 2

\* RunState definition
RUN_STATE_STOP == 0
RUN_STATE_RUN == 1
RUN_STATE_END == 2
RUN_STATE_CLEAR == 3

CONST_INVALID_TEMP == -5000

\* ------------------------------------------------------------------- bounds

\* the timer stops firing once timetickCounter reaches MaxTick
MaxTick == 4

\* how many POST /config commands the web task applies
MaxCommands == 2

\* how many records past the end of the arrays the model follows
MaxOverrun == 1

\* ------------------------------------------------------------------- inputs

\* first character of the runStartSet= value in a POST body
RunStartChars == {"0", "1", "2", "3", "4"}

\* results of one updateAdcReadings: the four live temperatures
TempVectors == { <<250, 251, 252, 253>>, <<CONST_INVALID_TEMP, 261, 262, 263>> }

\* -------------------------------------------------------------------- state

VARIABLES
    timetickCounter,  \* volatile int, seconds since boot or last reset
    TimeReadTick,     \* tick value of the next append
    runState,
    vDataArrayIdx,    \* current head of the data arrays
    t0Array, t1Array, t2Array, t3Array,
    temp0C, temp1C, temp2C, temp3C,
    notifyPending,    \* task notification posted by onTimer, not yet taken
    oobWrite,         \* a store through tNArray[i] with i >= DATA_ARRAY_SIZE happened
    dpc,              \* position of dataTestProcess
    dIdx,             \* register copy of vDataArrayIdx inside runSingleCheck (0 when dead)
    dTrt,             \* register copy of TimeReadTick inside the loop body (0 when dead)
    wpc,              \* position of the web task inside processUrlCommands
    wChar,            \* s.charAt(0) of the command being applied
    newRunStart,
    nCmds,            \* commands applied so far (bounds the model)
    ThermoUnit,       \* display unit, read from the EEPROM by setup
    AutoRefreshTime,  \* auto refresh time of the status page in seconds
    eeUnit,           \* committed EEPROM byte at CONFIG_UNIT_OFFSET
    rText,            \* value of refreshTSet= in the last POST body that had one
    rpc,              \* position of the web task inside a page it is sending
    rI,               \* loop variable i of printCsvData / printTempPlotData
    rRow,             \* the last row printCsvData has sent
    pCh,              \* which array printTempPlotData was called with (0..3)
    pX,               \* indices whose x point printTempPlotData has sent
    pY,               \* y points sent: <<index, value handed to printTenth>>
    uIn,              \* a stored value handed to tempUnitConversion
    uOut,             \* what tempUnitConversion returned for it
    uDone,            \* tempUnitConversion has been applied to uIn
    cFn,              \* a conversion function: "conv", "pb7", "pb7pu" or "tp10"
    cMv,              \* its argument mV
    cPu,              \* its argument pu, as the range tag 1, 50 or 1000
    cOut,             \* what it returned
    cDone,            \* it has been applied
    temp2_pu,         \* range of TAN2: 1 = 1K, 50 = 50K, 1000 = 1M
    temp3_pu,         \* range of TAN3
    pullPins,         \* mode of the four pull pins
    svLast,           \* the four sensorValue of the last updateAdcReadings
    band,             \* threshold the readings alternate around (0: any reading)
    trail2,           \* ranges TAN2 has had since the alternation began
    trail3,           \* ranges TAN3 has had since the alternation began
    hMode,            \* what is recorded: "off", "run", "wake", "mark", "conn", "boot" or "unit"
    hT,               \* timetickCounter read by the start command of the run (-1: none)
    hK,               \* records appended since that start, or since the mark
    hW,               \* wake-ups since the mark, counted up to hNeed + 1
    hNeed,            \* deadlines timetickCounter had passed at the mark (-1: no mark)
    hPrev,            \* runStartSet= character of the command applied last ("-": none)
    hLast,            \* timetickCounter at the test of the wake-up before (-1: none)
    hQuiet,           \* ticks since the connection was accepted or a byte was read
    hFull,            \* the loop has stored Stopped since the command was entered
    hTicks,           \* timer expiries since boot or the last timetickCounter = 0
    hGiven,           \* signals given by onTimer since the last take
    g_wdt_cnt,        \* volatile int, counted up by onTimer, cleared by the web task
    tReg,             \* register copy of g_wdt_cnt inside onTimer (-1 when dead)
    cpc,              \* position of the web task in webServerProcess ("off": not followed)
    isWaitPkt,        \* a byte of the request has been read
    cSend,            \* what the client has still to send
    cIn,              \* what has arrived and has not been read (client.available())
    header,           \* what has been read
    nConns            \* connections accepted so far (bounds the model)

arrays == <<t0Array, t1Array, t2Array, t3Array>>
temps == <<temp0C, temp1C, temp2C, temp3C>>
dataLocals == <<dpc, dIdx, dTrt>>
webLocals == <<wpc, wChar, newRunStart, nCmds>>
core == <<timetickCounter, TimeReadTick, runState, vDataArrayIdx, arrays, temps,
          notifyPending, oobWrite, dataLocals, webLocals>>
cfgVars == <<ThermoUnit, AutoRefreshTime, eeUnit, rText>>
readVars == <<rpc, rI, rRow, pCh, pX, pY>>
unitVars == <<uIn, uOut, uDone>>
convVars == <<cFn, cMv, cPu, cOut, cDone>>
bandVars == <<band, trail2, trail3>>
hist == <<hMode, hT, hK, hW, hNeed, hPrev, hLast, hQuiet, hFull, hTicks, hGiven>>
connLocals == <<cpc, isWaitPkt, cSend, cIn, header, nConns>>
wdtVars == <<g_wdt_cnt, tReg>>
connVars == <<wdtVars, connLocals>>
probeVars == <<unitVars, convVars, bandVars, hist>>
adcVars == <<temp2_pu, temp3_pu, pullPins, svLast>>
extState == <<cfgVars, readVars, adcVars, unitVars, convVars, bandVars>>
extProgram == <<extState, connVars>>
ext == <<cfgVars, readVars, adcVars, probeVars, connVars>>
vars == <<core, ext>>

Slots == 0 .. (DATA_ARRAY_SIZE - 1)

\* int AutoRefreshTime = 60: the interval after every restart; no statement
\* writes the interval to the EEPROM and setup() reads none
AutoRefreshBoot == 60

\* the web task is not sending a page
NoPage ==
    /\ rpc = "idle" /\ rI = 0 /\ rRow = <<>>
    /\ pCh = 0 /\ pX = <<>> /\ pY = <<>>

\* tempUnitConversion is not being applied on its own
NoUnitProbe == uIn = 0 /\ uOut = 0 /\ uDone = FALSE

\* no conversion function is being applied on its own
NoConvProbe == cFn = "conv" /\ cMv = 0 /\ cPu = 50 /\ cOut = 0 /\ cDone = FALSE

\* the readings are not alternating around a threshold
NoBand == band = 0 /\ trail2 = <<>> /\ trail3 = <<>>

\* nothing of the run is recorded
NoHist ==
    /\ hMode = "off" /\ hT = -1 /\ hK = 0 /\ hW = 0 /\ hNeed = -1 /\ hPrev = "-"
    /\ hLast = -1 /\ hQuiet = 0
    /\ hFull = FALSE /\ hTicks = 0 /\ hGiven = 0

\* the web task at position pos of webServerProcess, no client yet
ConnAt(pos) ==
    /\ cpc = pos /\ isWaitPkt = 0 /\ cSend = <<>> /\ cIn = <<>> /\ header = <<>>
    /\ nConns = 0

\* the connections of the web task are not followed
NoConn == ConnAt("off")

NoProbe == NoUnitProbe /\ NoConvProbe /\ NoBand /\ NoHist /\ NoConn

\* setup(): both auto-ranging channels start in the 50K range, the 50K pull
\* pins driven high and the 1K pull pins inputs; nothing has been read yet
AdcBoot ==
    /\ temp2_pu = 50 /\ temp3_pu = 50
    /\ pullPins = [a2_50k |-> "OUTPUT_HIGH", a2_1k |-> "INPUT",
                   a3_50k |-> "OUTPUT_HIGH", a3_1k |-> "INPUT"]
    /\ svLast = <<-1, -1, -1, -1>>

\* every global but runState and the unit, zero-initialised or set by
\* setup(), arrays never written, the acquisition task at pos ("none": not
\* created yet)
GlobalsAt(pos) ==
    /\ timetickCounter = 0
    /\ TimeReadTick = 0
    /\ vDataArrayIdx = 0
    /\ t0Array = [i \in Slots |-> 0]
    /\ t1Array = [i \in Slots |-> 0]
    /\ t2Array = [i \in Slots |-> 0]
    /\ t3Array = [i \in Slots |-> 0]
    /\ temp0C = 0 /\ temp1C = 0 /\ temp2C = 0 /\ temp3C = 0
    /\ notifyPending = FALSE
    /\ g_wdt_cnt = 0 /\ tReg = -1
    /\ oobWrite = FALSE
    /\ dpc = pos /\ dIdx = 0 /\ dTrt = 0
    /\ wpc = "idle" /\ wChar = "0" /\ newRunStart = 0 /\ nCmds = 0
    /\ AutoRefreshTime = AutoRefreshBoot /\ rText = <<>>
    /\ NoPage
    /\ AdcBoot

\* the same when the two tasks start, both at their entry
ZeroGlobals == GlobalsAt("wait")

\* mutant: setup without its last assignment, runState keeps its initialiser 0
Init_Stopped ==
    /\ ZeroGlobals
    /\ runState = RUN_STATE_STOP
    /\ eeUnit = 0 /\ ThermoUnit = eeUnit
    /\ NoProbe

\* state at the end of setup(): globals are zero-initialised, setup sets the
\* counters to 0 and runState to RUN_STATE_RUN, then creates both tasks
Init ==
    /\ ZeroGlobals
    /\ runState = RUN_STATE_RUN
    /\ eeUnit = 0 /\ ThermoUnit = eeUnit
    /\ NoProbe

\* ------------------------------------------------------- record of the run

\* The variables of hist are no state of the program: they record, for the
\* properties that speak of "the run started at tick T", "the k-th append" or
\* "k further wake-ups", what the program does not keep.  With hMode = "off"
\* nothing is recorded.

\* a wake-up begins: one more wake-up since the mark, and the signals given
\* so far are taken
HistWake ==
    /\ hW' = IF hMode = "mark" /\ hNeed >= 0 /\ hW <= hNeed THEN hW + 1 ELSE hW
    /\ hGiven' = 0
    /\ UNCHANGED <<hMode, hT, hK, hNeed, hPrev, hLast, hQuiet, hFull, hTicks>>

\* runSingleCheck stores a record: one more append
HistAppend ==
    /\ hK' = IF hMode = "run" \/ (hMode = "mark" /\ hNeed >= 0) THEN hK + 1 ELSE hK
    /\ UNCHANGED <<hMode, hT, hW, hNeed, hPrev, hLast, hQuiet, hFull, hTicks, hGiven>>

\* the start command has tested whether it starts a new run: if so, the run
\* begins at the tick it read
HistStart(starts) ==
    /\ hT' = IF hMode = "run" /\ starts THEN timetickCounter ELSE hT
    /\ hK' = IF hMode = "run" /\ starts THEN 0 ELSE hK
    /\ UNCHANGED <<hMode, hW, hNeed, hPrev, hLast, hQuiet, hFull, hTicks, hGiven>>

\* a runStartSet= command has been applied completely
HistDone ==
    /\ hPrev' = IF hMode = "run" THEN wChar ELSE hPrev
    /\ hFull' = FALSE
    /\ UNCHANGED <<hMode, hT, hK, hW, hNeed, hLast, hQuiet, hTicks, hGiven>>

\* runSingleCheck has tested the index; stored says whether it stored
\* runState = RUN_STATE_STOP, which is recorded while a command is applied
HistFull(stored) ==
    /\ hFull' = IF hMode = "run" /\ stored /\ wpc # "idle" THEN TRUE ELSE hFull
    /\ UNCHANGED <<hMode, hT, hK, hW, hNeed, hPrev, hLast, hQuiet, hTicks, hGiven>>

\* a wake-up has compared LastTimeTick with timetickCounter
HistSeen ==
    /\ hLast' = IF hMode = "wake" THEN timetickCounter ELSE hLast
    /\ UNCHANGED <<hMode, hT, hK, hW, hNeed, hPrev, hQuiet, hFull, hTicks, hGiven>>

\* onTimer: with counted, timetickCounter++ is done, one more expiry; with
\* ended, it has run to its end, one more tick without a byte and, the
\* acquisition task existing, one more signal
HistExpiry(counted, ended) ==
    /\ hTicks' = IF hMode = "conn" /\ counted THEN hTicks + 1 ELSE hTicks
    /\ hQuiet' = IF hMode = "conn" /\ ended THEN hQuiet + 1 ELSE hQuiet
    /\ hGiven' = IF hMode = "boot" /\ ended /\ dpc # "none"
                  THEN hGiven + 1 ELSE hGiven
    /\ UNCHANGED <<hMode, hT, hK, hW, hNeed, hPrev, hLast, hFull>>

\* a tempUnitSet= command has been applied; changed says whether it stored
\* ThermoUnit: one more change of the unit
HistUnit(changed) ==
    /\ hK' = IF hMode = "unit" /\ changed THEN hK + 1 ELSE hK
    /\ UNCHANGED <<hMode, hT, hW, hNeed, hPrev, hLast, hQuiet, hFull, hTicks, hGiven>>

\* the reset command has stored timetickCounter = 0
HistReset ==
    /\ hTicks' = 0
    /\ UNCHANGED <<hMode, hT, hK, hW, hNeed, hPrev, hLast, hQuiet, hFull, hGiven>>

\* the web task has cleared g_wdt_cnt
HistHeard ==
    /\ hQuiet' = IF hMode = "conn" THEN 0 ELSE hQuiet
    /\ UNCHANGED <<hMode, hT, hK, hW, hNeed, hPrev, hLast, hFull, hTicks, hGiven>>

\* ---------------------------------------------------------------- timer ISR

\* mutant: the counters incremented twice per expiry
Tick_Twice(limit) ==
    /\ timetickCounter < limit
    /\ timetickCounter' = timetickCounter + 2
    /\ g_wdt_cnt' = g_wdt_cnt + 2
    /\ notifyPending' = (dpc # "none" \/ notifyPending)
    /\ HistExpiry(TRUE, TRUE)
    /\ UNCHANGED <<TimeReadTick, runState, vDataArrayIdx, arrays, temps,
                   oobWrite, dataLocals, webLocals, extState, tReg, connLocals>>

\* onTimer: timetickCounter++ and g_wdt_cnt++ inside timerMux, then
\* vTaskNotifyGiveFromISR if xDataTestHandle is not NULL, that is if the
\* acquisition task has been created; the model stops the timer at tick
\* `limit`
Tick(limit) ==
    /\ timetickCounter < limit
    /\ timetickCounter' = timetickCounter + 1
    /\ g_wdt_cnt' = g_wdt_cnt + 1
    /\ notifyPending' = (dpc # "none" \/ notifyPending)
    /\ HistExpiry(TRUE, TRUE)
    /\ UNCHANGED <<TimeReadTick, runState, vDataArrayIdx, arrays, temps,
                   oobWrite, dataLocals, webLocals, extState, tReg, connLocals>>

onTimer == Tick(MaxTick)

\* --------------------------------------------------------- acquisition task

\* mutant: the take leaving the notification pending
DataTake_KeepPending ==
    /\ dpc = "wait"
    /\ UNCHANGED notifyPending
    /\ dpc' = "adc"
    /\ HistWake
    /\ UNCHANGED <<timetickCounter, TimeReadTick, runState, vDataArrayIdx, arrays,
                   temps, oobWrite, dIdx, dTrt, webLocals, extProgram>>

\* ulTaskNotifyTake(pdTRUE, pdMS_TO_TICKS(2000)): returns when a notification
\* is pending (and clears it) or when the wait times out with none pending
DataTake ==
    /\ dpc = "wait"
    /\ \/ notifyPending /\ notifyPending' = FALSE
       \/ ~notifyPending /\ notifyPending' = FALSE
    /\ dpc' = "adc"
    /\ HistWake
    /\ UNCHANGED <<timetickCounter, TimeReadTick, runState, vDataArrayIdx, arrays,
                   temps, oobWrite, dIdx, dTrt, webLocals, extProgram>>

\* if (LastTimeTick != timetickCounter) updateAdcReadings();
\* LastTimeTick is a local that is never initialised or assigned, so the test
\* may go either way; updateAdcReadings stores four fresh temperatures
DataAdc ==
    /\ dpc = "adc"
    /\ \/ \E v \in TempVectors :
            /\ temp0C' = v[1] /\ temp1C' = v[2] /\ temp2C' = v[3] /\ temp3C' = v[4]
       \/ UNCHANGED temps
    /\ dpc' = "deadline"
    /\ HistSeen
    /\ UNCHANGED <<timetickCounter, TimeReadTick, runState, vDataArrayIdx, arrays,
                   notifyPending, oobWrite, dIdx, dTrt, webLocals, extProgram>>

\* mutant: the deadline test written with < instead of <=
DeadlineReached_Strict(trt, tick) == trt < tick

\* TimeReadTick <= timetickCounter
DeadlineReached(trt, tick) == trt <= tick

\* if (TimeReadTick <= timetickCounter)
DataDeadline ==
    /\ dpc = "deadline"
    /\ IF DeadlineReached(TimeReadTick, timetickCounter)
         THEN dpc' = "runstate" /\ dTrt' = TimeReadTick
         ELSE dpc' = "wait" /\ dTrt' = 0
    /\ UNCHANGED <<timetickCounter, TimeReadTick, runState, vDataArrayIdx, arrays,
                   temps, notifyPending, oobWrite, dIdx, webLocals, ext>>

\* mutant: records appended in every state
CaptureEnabled_Always(rs) == TRUE

\* mutant: records appended in Running only
CaptureEnabled_RunOnly(rs) == rs = RUN_STATE_RUN

\* runState != RUN_STATE_STOP
CaptureEnabled(rs) == rs # RUN_STATE_STOP

\* if (runState != RUN_STATE_STOP) runSingleCheck();
\* the model follows at most MaxOverrun records past the end of the arrays
DataRunState ==
    /\ dpc = "runstate"
    /\ CaptureEnabled(runState) => vDataArrayIdx < DATA_ARRAY_SIZE + MaxOverrun
    /\ IF CaptureEnabled(runState)
         THEN dpc' = "rec" /\ dTrt' = dTrt
         ELSE dpc' = "wait" /\ dTrt' = 0
    /\ UNCHANGED <<timetickCounter, TimeReadTick, runState, vDataArrayIdx, arrays,
                   temps, notifyPending, oobWrite, dIdx, webLocals, ext>>

\* a[i] = v for an int16_t a[DATA_ARRAY_SIZE]; a store with i out of range
\* does not land in a
Store(a, i, v) == IF i \in Slots THEN [a EXCEPT ![i] = v] ELSE a

\* runSingleCheck, the four stores tNArray[vDataArrayIdx] = tempNC.
\* With the index out of range the stores are undefined: they either miss the
\* four arrays, or (arrays laid out one after the other) tNArray[SIZE + k]
\* is the slot k of the next array.
DataWriteRecord ==
    /\ dpc = "rec"
    /\ LET i == vDataArrayIdx IN
        /\ dIdx' = i
        /\ IF i \in Slots
             THEN /\ t0Array' = Store(t0Array, i, temp0C)
                  /\ t1Array' = Store(t1Array, i, temp1C)
                  /\ t2Array' = Store(t2Array, i, temp2C)
                  /\ t3Array' = Store(t3Array, i, temp3C)
                  /\ UNCHANGED oobWrite
             ELSE /\ oobWrite' = TRUE
                  /\ \/ UNCHANGED arrays
                     \/ /\ t0Array' = t0Array
                        /\ t1Array' = Store(t1Array, i - DATA_ARRAY_SIZE, temp0C)
                        /\ t2Array' = Store(t2Array, i - DATA_ARRAY_SIZE, temp1C)
                        /\ t3Array' = Store(t3Array, i - DATA_ARRAY_SIZE, temp2C)
    /\ dpc' = "inc"
    /\ HistAppend
    /\ UNCHANGED <<timetickCounter, TimeReadTick, runState, vDataArrayIdx, temps,
                   notifyPending, dTrt, webLocals, extProgram>>

\* runSingleCheck, vDataArrayIdx++ (a load, an add and a store, not atomic)
DataIncIdx ==
    /\ dpc = "inc"
    /\ \E v \in {dIdx, vDataArrayIdx} :
        /\ vDataArrayIdx' = v + 1
        /\ dIdx' = v + 1
    /\ dpc' = "full"
    /\ UNCHANGED <<timetickCounter, TimeReadTick, runState, arrays, temps,
                   notifyPending, oobWrite, dTrt, webLocals, ext>>

\* vDataArrayIdx >= DATA_ARRAY_SIZE
BufferFull(idx) == idx >= DATA_ARRAY_SIZE

\* runSingleCheck, if (vDataArrayIdx >= DATA_ARRAY_SIZE) runState = RUN_STATE_STOP;
DataFull ==
    /\ dpc = "full"
    /\ \E v \in {dIdx, vDataArrayIdx} :
        /\ runState' = IF BufferFull(v) THEN RUN_STATE_STOP ELSE runState
        /\ HistFull(BufferFull(v))
    /\ dIdx' = 0
    /\ dpc' = "adv"
    /\ UNCHANGED <<timetickCounter, TimeReadTick, vDataArrayIdx, arrays, temps,
                   notifyPending, oobWrite, dTrt, webLocals, extProgram>>

\* mutant: the deadline moved to MEAS_INTERVAL after the current tick
DataAdvance_FromNow ==
    /\ dpc = "adv"
    /\ TimeReadTick' = timetickCounter + MEAS_INTERVAL
    /\ dTrt' = 0
    /\ dpc' = "wait"
    /\ UNCHANGED <<timetickCounter, runState, vDataArrayIdx, arrays, temps,
                   notifyPending, oobWrite, dIdx, webLocals, ext>>

\* TimeReadTick += MEAS_INTERVAL;
DataAdvance ==
    /\ dpc = "adv"
    /\ \E v \in {dTrt, TimeReadTick} :
        TimeReadTick' = v + MEAS_INTERVAL
    /\ dTrt' = 0
    /\ dpc' = "wait"
    /\ UNCHANGED <<timetickCounter, runState, vDataArrayIdx, arrays, temps,
                   notifyPending, oobWrite, dIdx, webLocals, ext>>

dataTestProcess ==
    \/ DataTake
    \/ DataAdc
    \/ DataDeadline
    \/ DataRunState
    \/ DataWriteRecord
    \/ DataIncIdx
    \/ DataFull
    \/ DataAdvance

\* ----------------------------------------------------------------- requests

\* if (g_wdt_cnt >= 10): the connection timeout, scaled down with the tick
\* range
WDT_TIMEOUT == 3

\* how many connections the web task accepts
MaxConns == 1

\* What a client sends, one word standing for the run of characters that
\* spells it: the request line up to the path.  The body of a POST is the
\* command that processUrlCommands is entered with.
Requests == { <<"GET", "status">>, <<"GET", "config">>, <<"GET", "csv">>,
              <<"GET", "x">>, <<"POST", "config">>, <<"POST", "wifitest">>,
              <<"PUT", "x">> }

\* header.indexOf(w) == 0 for the words w
StartsWith(h, w) == Len(h) >= Len(w) /\ SubSeq(h, 1, Len(w)) = w

\* header.indexOf(kw) >= 0
Has(h, kw) == \E i \in 1 .. Len(h) : h[i] = kw

\* mutant: processUrlCommands called for GET /config as well
PageOf_AnyConfig(h) ==
    IF Has(h, "config") THEN "processUrlCommands"
    ELSE IF StartsWith(h, <<"POST", "wifitest">>) THEN "testWiFiClient"
    ELSE IF StartsWith(h, <<"GET">>)
      THEN IF Has(h, "status") THEN "printHomePage"
           ELSE IF Has(h, "csv") THEN "printCsvPage"
           ELSE "print404Page"
    ELSE "none"

\* the function webServerProcess calls for the header it has read
PageOf(h) ==
    IF StartsWith(h, <<"POST", "config">>) THEN "processUrlCommands"
    ELSE IF StartsWith(h, <<"POST", "wifitest">>) THEN "testWiFiClient"
    ELSE IF StartsWith(h, <<"GET">>)
      THEN IF Has(h, "config") THEN "printSettingsPage"
           ELSE IF Has(h, "status") THEN "printHomePage"
           ELSE IF Has(h, "csv") THEN "printCsvPage"
           ELSE "print404Page"
    ELSE "none"

\* webServerProcess is about to call fn; where the connections are not
\* followed, a request for it has been read
Dispatched(fn) == cpc = "off" \/ (cpc = "serve" /\ PageOf(header) = fn)

\* the function called for the request is entered
ServeBegin ==
    /\ cpc' = IF cpc = "serve" THEN "busy" ELSE cpc
    /\ UNCHANGED <<isWaitPkt, cSend, cIn, header, nConns>>

\* it returns: the break out of the loop follows
ServeEnd ==
    /\ cpc' = IF cpc = "busy" THEN "sent" ELSE cpc
    /\ UNCHANGED <<isWaitPkt, cSend, cIn, header, nConns>>

\* it is entered and returns in one step
ServeWhole ==
    /\ cpc' = IF cpc = "serve" THEN "sent" ELSE cpc
    /\ UNCHANGED <<isWaitPkt, cSend, cIn, header, nConns>>

\* ----------------------------------------------------------------- web task

\* newRunStart = s.charAt(0) == '1' ? 1 : s.charAt(0) == '4' ? 4 : 0;
ParseRunStart(c) == IF c = "1" THEN 1 ELSE IF c = "4" THEN 4 ELSE 0

\* s.charAt(0) == '3'
IsResetChar(c) == c = "3"

\* processUrlCommands is entered with a POST body holding runStartSet=<c>
WebCommandOf(c) ==
    /\ wpc = "idle" /\ rpc = "idle"
    /\ Dispatched("processUrlCommands")
    /\ nCmds < MaxCommands
    /\ nCmds' = nCmds + 1
    /\ wChar' = c
    /\ newRunStart' = ParseRunStart(c)
    /\ wpc' = IF IsResetChar(c) THEN "rst_tick" ELSE "test"
    /\ ServeBegin
    /\ UNCHANGED <<timetickCounter, TimeReadTick, runState, vDataArrayIdx, arrays,
                   temps, notifyPending, oobWrite, dataLocals, extState, hist,
                   wdtVars>>

WebCommand == \E c \in RunStartChars : WebCommandOf(c)

\* portENTER_CRITICAL_ISR; timetickCounter = 0; portEXIT_CRITICAL_ISR: not
\* while onTimer holds timerMux
WebResetTick ==
    /\ wpc = "rst_tick"
    /\ tReg = -1
    /\ timetickCounter' = 0
    /\ wpc' = "rst_idx"
    /\ HistReset
    /\ UNCHANGED <<TimeReadTick, runState, vDataArrayIdx, arrays, temps,
                   notifyPending, oobWrite, dataLocals, wChar, newRunStart, nCmds,
                   extProgram>>

\* vDataArrayIdx = 0;
WebResetIdx ==
    /\ wpc = "rst_idx"
    /\ vDataArrayIdx' = 0
    /\ wpc' = "rst_state"
    /\ UNCHANGED <<timetickCounter, TimeReadTick, runState, arrays, temps,
                   notifyPending, oobWrite, dataLocals, wChar, newRunStart, nCmds, ext>>

\* runState = RUN_STATE_STOP;
WebResetState ==
    /\ wpc = "rst_state"
    /\ runState' = RUN_STATE_STOP
    /\ wpc' = "test"
    /\ UNCHANGED <<timetickCounter, TimeReadTick, vDataArrayIdx, arrays, temps,
                   notifyPending, oobWrite, dataLocals, wChar, newRunStart, nCmds, ext>>

\* mutant: the test of the current state left out of the condition
StartsNewRun_AnyState(rs, n) == n = RUN_STATE_RUN

\* runState == RUN_STATE_STOP && (newRunStart == RUN_STATE_RUN)
StartsNewRun(rs, n) == rs = RUN_STATE_STOP /\ n = RUN_STATE_RUN

\* mutant: the deadline set to the current tick, the interval forgotten
NewDeadline_Now(tick) == tick

\* TimeReadTick = timetickCounter + MEAS_INTERVAL;
NewDeadline(tick) == tick + MEAS_INTERVAL

\* if (runState == RUN_STATE_STOP && newRunStart == RUN_STATE_RUN)
\*     TimeReadTick = timetickCounter + MEAS_INTERVAL;
WebStartTest ==
    /\ wpc = "test"
    /\ TimeReadTick' = IF StartsNewRun(runState, newRunStart)
                         THEN NewDeadline(timetickCounter)
                         ELSE TimeReadTick
    /\ wpc' = "set"
    /\ HistStart(StartsNewRun(runState, newRunStart))
    /\ UNCHANGED <<timetickCounter, runState, vDataArrayIdx, arrays, temps,
                   notifyPending, oobWrite, dataLocals, wChar, newRunStart, nCmds,
                   extProgram>>

\* mutant: the store of runState moved inside the if that starts a new run
WebSetRunState_InsideIf ==
    /\ wpc = "set"
    /\ runState' = IF runState = RUN_STATE_STOP /\ newRunStart = RUN_STATE_RUN
                     THEN newRunStart ELSE runState
    /\ wpc' = "done"
    /\ UNCHANGED <<timetickCounter, TimeReadTick, vDataArrayIdx, arrays, temps,
                   notifyPending, oobWrite, dataLocals, wChar, newRunStart, nCmds, ext>>

\* runState = newRunStart;
WebSetRunState ==
    /\ wpc = "set"
    /\ runState' = newRunStart
    /\ wpc' = "done"
    /\ UNCHANGED <<timetickCounter, TimeReadTick, vDataArrayIdx, arrays, temps,
                   notifyPending, oobWrite, dataLocals, wChar, newRunStart, nCmds, ext>>

\* Serial.print("runStart "); Serial.println(runState); and the return
WebDone ==
    /\ wpc = "done"
    /\ wpc' = "idle" /\ wChar' = "0" /\ newRunStart' = 0
    /\ UNCHANGED nCmds
    /\ HistDone
    /\ ServeEnd
    /\ UNCHANGED <<timetickCounter, TimeReadTick, runState, vDataArrayIdx, arrays,
                   temps, notifyPending, oobWrite, dataLocals, extState, wdtVars>>

processUrlCommands ==
    \/ WebCommand
    \/ WebResetTick
    \/ WebResetIdx
    \/ WebResetState
    \/ WebStartTest
    \/ WebSetRunState
    \/ WebDone

\* ------------------------------------------------------------ specification

Next ==
    \/ onTimer
    \/ dataTestProcess
    \/ processUrlCommands

Spec == Init /\ [][Next]_vars

\* ------------------------- specification: runs stopped and started again

\* the state at the end of setup(), with mode saying what is recorded
InitRecording(mode) ==
    /\ ZeroGlobals
    /\ runState = RUN_STATE_RUN
    /\ eeUnit = 0 /\ ThermoUnit = eeUnit
    /\ NoUnitProbe /\ NoConvProbe /\ NoBand
    /\ hMode = mode /\ hT = -1 /\ hK = 0 /\ hW = 0 /\ hNeed = -1 /\ hPrev = "-"
    /\ hLast = -1 /\ hQuiet = 0
    /\ hFull = FALSE /\ hTicks = 0 /\ hGiven = 0
    /\ NoConn

\* the runs and the commands are recorded
InitRuns == InitRecording("run")

\* POST /config with runStartSet=0 and with runStartSet=1
WebStop == WebCommandOf("0")
WebStart == WebCommandOf("1")

\* the timer, the acquisition task and the web task applying stop and start
\* commands, never a reset
NextRuns ==
    \/ onTimer
    \/ dataTestProcess
    \/ WebStop
    \/ WebStart
    \/ WebStartTest
    \/ WebSetRunState
    \/ WebDone

SpecRuns == InitRuns /\ [][NextRuns]_vars

\* ------------------------ specification: wake-ups that come late or early

\* the state at the end of setup(), wake-ups and appends to be counted from
\* a mark on
InitMark == InitRecording("mark")

\* how many of the deadlines trt, trt + MEAS_INTERVAL, ... the tick has
\* reached or passed
PassedDeadlines(trt, tick) ==
    IF trt > tick THEN 0 ELSE (tick - trt) \div MEAS_INTERVAL + 1

\* the mark: the loop is in its wait, the run is on, the buffer not full and
\* at least one deadline has passed; from here wake-ups and appends are
\* counted
MarkDeadlines ==
    /\ hMode = "mark" /\ hNeed = -1
    /\ dpc = "wait"
    /\ runState # RUN_STATE_STOP
    /\ vDataArrayIdx < DATA_ARRAY_SIZE
    /\ PassedDeadlines(TimeReadTick, timetickCounter) >= 1
    /\ hNeed' = PassedDeadlines(TimeReadTick, timetickCounter)
    /\ UNCHANGED <<core, cfgVars, readVars, adcVars, unitVars, convVars, bandVars,
                   connVars, hMode, hT, hK, hW, hPrev, hLast, hQuiet, hFull, hTicks, hGiven>>

\* the timer and the acquisition task, the wait returning with or without a
\* notification
NextCatchUp ==
    \/ onTimer
    \/ dataTestProcess
    \/ MarkDeadlines

SpecCatchUp == InitMark /\ [][NextCatchUp]_vars

\* --------------------- specification: the timer running before the tasks

\* setup() after timerAlarmEnable: the timer runs, runState still has its
\* initialiser 0 and no task is created; the signals given are recorded
InitBoot ==
    /\ GlobalsAt("none")
    /\ runState = RUN_STATE_STOP
    /\ eeUnit = 0 /\ ThermoUnit = eeUnit
    /\ NoUnitProbe /\ NoConvProbe /\ NoBand
    /\ hMode = "boot" /\ hT = -1 /\ hK = 0 /\ hW = 0 /\ hNeed = -1 /\ hPrev = "-"
    /\ hLast = -1 /\ hQuiet = 0
    /\ hFull = FALSE /\ hTicks = 0 /\ hGiven = 0
    /\ NoConn

\* the rest of setup(): vDataArrayIdx = 0; runState = RUN_STATE_RUN; and the
\* two xTaskCreate, the second of which sets xDataTestHandle
SetupTasks ==
    /\ dpc = "none"
    /\ vDataArrayIdx' = 0
    /\ runState' = RUN_STATE_RUN
    /\ dpc' = "wait"
    /\ UNCHANGED <<timetickCounter, TimeReadTick, arrays, temps, notifyPending,
                   oobWrite, dIdx, dTrt, webLocals, ext>>

NextBoot ==
    \/ onTimer
    \/ SetupTasks
    \/ dataTestProcess

SpecBoot == InitBoot /\ [][NextBoot]_vars

\* ---------------------------- specification: resets and starts in a row

\* POST /config with runStartSet=3
WebReset == WebCommandOf("3")

\* the timer, the acquisition task and the web task applying reset and start
\* commands one after the other, in any order
NextOrder ==
    \/ onTimer
    \/ dataTestProcess
    \/ WebReset
    \/ WebStart
    \/ WebResetTick
    \/ WebResetIdx
    \/ WebResetState
    \/ WebStartTest
    \/ WebSetRunState
    \/ WebDone

SpecOrder == InitRuns /\ [][NextOrder]_vars

\* ------------------------------------------- append, one store at a time

\* mutant: the increment of vDataArrayIdx moved before the last store
StorePc_IncBeforeLast(n) == <<"rec", "st1", "st2", "inc", "inc">>[n + 1]

\* position of dataTestProcess before the store of channel n
StorePc(n) == <<"rec", "st1", "st2", "st3", "inc">>[n + 1]

\* temp0C .. temp3C by channel number
LiveTemp(n) == <<temp0C, temp1C, temp2C, temp3C>>[n + 1]

\* tnArray[i] = v.  With i out of range the store is undefined: it misses
\* the four arrays, or (alias, arrays laid out one after the other) it is
\* the slot i - DATA_ARRAY_SIZE of the array that follows.
ChannelStore(n, i, v, alias) ==
    LET tgt == IF i \in Slots THEN n ELSE IF alias THEN n + 1 ELSE 4
        j == IF i \in Slots THEN i ELSE i - DATA_ARRAY_SIZE
    IN  /\ t0Array' = IF tgt = 0 THEN Store(t0Array, j, v) ELSE t0Array
        /\ t1Array' = IF tgt = 1 THEN Store(t1Array, j, v) ELSE t1Array
        /\ t2Array' = IF tgt = 2 THEN Store(t2Array, j, v) ELSE t2Array
        /\ t3Array' = IF tgt = 3 THEN Store(t3Array, j, v) ELSE t3Array
        /\ oobWrite' = (oobWrite \/ i \notin Slots)

\* runSingleCheck, the statement tnArray[vDataArrayIdx] = tempnC; the index
\* is loaded by the first store and may stay in a register for the others
DataStore(n) ==
    /\ dpc = StorePc(n)
    /\ \E i \in (IF n = 0 THEN {vDataArrayIdx} ELSE {dIdx, vDataArrayIdx}),
          alias \in BOOLEAN :
        /\ ChannelStore(n, i, LiveTemp(n), alias)
        /\ dIdx' = i
    /\ dpc' = StorePc(n + 1)
    /\ UNCHANGED <<timetickCounter, TimeReadTick, runState, vDataArrayIdx, temps,
                   notifyPending, dTrt, webLocals, ext>>

\* dataTestProcess with the four stores of runSingleCheck as separate steps
dataTestProcessByStore ==
    \/ DataTake
    \/ DataAdc
    \/ DataDeadline
    \/ DataRunState
    \/ DataStore(0)
    \/ DataStore(1)
    \/ DataStore(2)
    \/ DataStore(3)
    \/ DataIncIdx
    \/ DataFull
    \/ DataAdvance

\* ------------------------------------------------- web task: sending pages

CONFIG_USE_UNIT_F == 1

\* values of the EEPROM byte at CONFIG_UNIT_OFFSET that setup may read:
\* Celsius, Fahrenheit, and the byte of an erased flash
UnitBytes == {0, CONFIG_USE_UNIT_F, 255}

\* conversion of an int to int16_t (two's complement wrap)
ToInt16(x) == ((x + 32768) % 65536) - 32768

\* mutant: every unit byte but 0 taken for Fahrenheit
tempUnitConversion_NonZero(t_in) ==
    IF ThermoUnit = 0
      THEN t_in
      ELSE ((((t_in * 9) \div 5) + 320 + 32768) % 65536) - 32768

\* mutant: the division rounding towards minus infinity
IntDiv_Floor(a, b) == a \div b

\* a / b of C for b > 0: the quotient truncated towards zero
IntDiv(a, b) == IF a >= 0 THEN a \div b ELSE -((-a) \div b)

\* int16_t tempUnitConversion(int16_t t_in)
tempUnitConversion(t_in) ==
    IF ThermoUnit # CONFIG_USE_UNIT_F
      THEN t_in
      ELSE ToInt16(IntDiv(t_in * 9, 5) + 320)

\* t0Array .. t3Array by channel number
DataArray(ch) == <<t0Array, t1Array, t2Array, t3Array>>[ch + 1]

\* printCsvData is entered (GET /csv); the web task serves one request at a
\* time, so it is not inside processUrlCommands
CsvBegin ==
    /\ wpc = "idle" /\ rpc = "idle"
    /\ Dispatched("printCsvPage")
    /\ rpc' = "csv_test"
    /\ rI' = 0
    /\ ServeBegin
    /\ UNCHANGED <<core, cfgVars, adcVars, probeVars, wdtVars, rRow, pCh, pX, pY>>

\* for (i = 0; i < vDataArrayIdx; i++), the test
CsvTest ==
    /\ rpc = "csv_test"
    /\ IF rI < vDataArrayIdx
         THEN rpc' = "csv_row" /\ UNCHANGED <<rI, rRow, connLocals>>
         ELSE rpc' = "idle" /\ rI' = 0 /\ rRow' = <<>> /\ ServeEnd
    /\ UNCHANGED <<core, cfgVars, adcVars, probeVars, wdtVars, pCh, pX, pY>>

\* the body of the loop: one line with i * MEAS_INTERVAL and the four values
\* handed to printTenth (rows past the end of the arrays are not followed)
CsvRow ==
    /\ rpc = "csv_row"
    /\ rI \in Slots
    /\ rRow' = <<rI * MEAS_INTERVAL,
                 tempUnitConversion(t0Array[rI]), tempUnitConversion(t1Array[rI]),
                 tempUnitConversion(t2Array[rI]), tempUnitConversion(t3Array[rI])>>
    /\ rI' = rI + 1
    /\ rpc' = "csv_test"
    /\ UNCHANGED <<core, cfgVars, adcVars, probeVars, connVars, pCh, pX, pY>>

printCsvData ==
    \/ CsvBegin
    \/ CsvTest
    \/ CsvRow

\* mutant: the sentinel test made on the converted value
IsPlotted_Converted(v) == tempUnitConversion(v) # CONST_INVALID_TEMP

\* aData[i] != CONST_INVALID_TEMP
IsPlotted(v) == v # CONST_INVALID_TEMP

\* printTempPlotData(client, aData) is entered, aData one of the four arrays;
\* printHomePage, through printPlotlyTable, calls it with t0Array first
PlotBegin ==
    /\ wpc = "idle" /\ rpc = "idle"
    /\ Dispatched("printHomePage")
    /\ \E ch \in (IF cpc = "off" THEN 0 .. 3 ELSE {0}) : pCh' = ch
    /\ rpc' = "x_test"
    /\ rI' = 0
    /\ ServeBegin
    /\ UNCHANGED <<core, cfgVars, adcVars, probeVars, wdtVars, rRow, pX, pY>>

\* first loop, the test i < vDataArrayIdx; after the loop the x line is sent
PlotXTest ==
    /\ rpc = "x_test"
    /\ IF rI < vDataArrayIdx
         THEN rpc' = "x_row" /\ UNCHANGED rI
         ELSE rpc' = "y_test" /\ rI' = 0
    /\ UNCHANGED <<core, cfgVars, adcVars, probeVars, connVars, rRow, pCh, pX, pY>>

\* first loop, the body: the x point of record i is its time, printed only
\* if aData[i] is not the sentinel
PlotXRow ==
    /\ rpc = "x_row"
    /\ rI \in Slots
    /\ pX' = IF IsPlotted(DataArray(pCh)[rI]) THEN Append(pX, rI) ELSE pX
    /\ rI' = rI + 1
    /\ rpc' = "x_test"
    /\ UNCHANGED <<core, cfgVars, adcVars, probeVars, connVars, rRow, pCh, pY>>

\* second loop, the test i < vDataArrayIdx; after the loop the y line is sent
PlotYTest ==
    /\ rpc = "y_test"
    /\ IF rI < vDataArrayIdx
         THEN rpc' = "y_row" /\ UNCHANGED rI
         ELSE rpc' = "plot_end" /\ UNCHANGED rI
    /\ UNCHANGED <<core, cfgVars, adcVars, probeVars, connVars, rRow, pCh, pX, pY>>

\* second loop, the body: printTenth(tempUnitConversion(aData[i])) if
\* aData[i] is not the sentinel
PlotYRow ==
    /\ rpc = "y_row"
    /\ rI \in Slots
    /\ pY' = IF IsPlotted(DataArray(pCh)[rI])
               THEN Append(pY, <<rI, tempUnitConversion(DataArray(pCh)[rI])>>)
               ELSE pY
    /\ rI' = rI + 1
    /\ rpc' = "y_test"
    /\ UNCHANGED <<core, cfgVars, adcVars, probeVars, connVars, rRow, pCh, pX>>

\* return of printTempPlotData; printPlotlyTable calls it again with the next
\* array, after the last one the page ends
PlotEnd ==
    /\ rpc = "plot_end"
    /\ IF cpc = "busy" /\ pCh < 3
         THEN rpc' = "x_test" /\ pCh' = pCh + 1 /\ UNCHANGED connLocals
         ELSE rpc' = "idle" /\ pCh' = 0 /\ ServeEnd
    /\ rI' = 0 /\ pX' = <<>> /\ pY' = <<>>
    /\ UNCHANGED <<core, cfgVars, adcVars, probeVars, wdtVars, rRow>>

printTempPlotData ==
    \/ PlotBegin
    \/ PlotXTest
    \/ PlotXRow
    \/ PlotYTest
    \/ PlotYRow
    \/ PlotEnd

\* -------------------------- specification: pages sent while a run goes on

\* state at the end of setup(), the unit being whatever the EEPROM holds
InitRead ==
    /\ ZeroGlobals
    /\ runState = RUN_STATE_RUN
    /\ eeUnit \in UnitBytes /\ ThermoUnit = eeUnit
    /\ NoProbe

\* the timer, the acquisition task and the web task sending pages; the web
\* task serves one request at a time, so no command is applied meanwhile
NextRead ==
    \/ onTimer
    \/ dataTestProcessByStore
    \/ printCsvData
    \/ printTempPlotData

SpecRead == InitRead /\ [][NextRead]_vars

\* ------------------------------------ web task: unit and refresh commands

\* first character of the tempUnitSet= value in a POST body
UnitChars == {"0", "1", "F"}

\* int newTempUnit = s.charAt(0) == '1' ? 1 : 0;
ParseTempUnit(c) == IF c = "1" THEN 1 ELSE 0

\* values of refreshTSet= in a POST body, as the characters before the next
\* '&': nothing, 0, 60, 899, 900, -1 and 1000
RefreshTexts ==
    { <<>>, <<"0">>, <<"6", "0">>, <<"8", "9", "9">>, <<"9", "0", "0">>,
      <<"-", "1">>, <<"1", "0", "0", "0">> }

Digits == <<"0", "1", "2", "3", "4", "5", "6", "7", "8", "9">>

IsDigit(c) == \E d \in 1 .. 10 : Digits[d] = c

DigitValue(c) == (CHOOSE d \in 1 .. 10 : Digits[d] = c) - 1

\* the number the leading digits of txt stand for, after the digits read
\* so far stand for acc
RECURSIVE ReadDigits(_, _)
ReadDigits(txt, acc) ==
    IF txt = <<>> \/ ~IsDigit(Head(txt)) THEN acc
    ELSE ReadDigits(Tail(txt), 10 * acc + DigitValue(Head(txt)))

\* String::toInt(), that is atol: an optional sign, then digits up to the
\* first character that is none; 0 if there is no digit
ToInt(txt) ==
    IF txt # <<>> /\ Head(txt) = "-" THEN 0 - ReadDigits(Tail(txt), 0)
    ELSE ReadDigits(txt, 0)

\* header.substring(idxRefreshT + 12, idxRefreshT + 12 + 3) for a body in
\* which txt and then '&' follow refreshTSet=
Substring3(txt) ==
    SubSeq(txt \o <<"&">>, 1, IF Len(txt) + 1 < 3 THEN Len(txt) + 1 ELSE 3)

\* newRefreshT < 900 && newRefreshT >= 0
RefreshAccepted(v) == v < 900 /\ v >= 0

\* processUrlCommands with a POST body holding tempUnitSet=<c>: the unit is
\* stored, written to the EEPROM and committed only if it changes
WebTempUnit ==
    /\ wpc = "idle" /\ rpc = "idle"
    /\ Dispatched("processUrlCommands")
    /\ ServeWhole
    /\ nCmds < MaxCommands
    /\ nCmds' = nCmds + 1
    /\ \E c \in UnitChars :
        /\ IF ParseTempUnit(c) # ThermoUnit
             THEN ThermoUnit' = ParseTempUnit(c) /\ eeUnit' = ParseTempUnit(c)
             ELSE UNCHANGED <<ThermoUnit, eeUnit>>
        /\ HistUnit(ParseTempUnit(c) # ThermoUnit)
    /\ UNCHANGED <<timetickCounter, TimeReadTick, runState, vDataArrayIdx, arrays,
                   temps, notifyPending, oobWrite, dataLocals, wpc, wChar,
                   newRunStart, AutoRefreshTime, rText, readVars, adcVars, unitVars,
                   convVars, bandVars, wdtVars>>

\* processUrlCommands with a POST body holding refreshTSet=<digits>
WebRefresh ==
    /\ wpc = "idle" /\ rpc = "idle"
    /\ Dispatched("processUrlCommands")
    /\ ServeWhole
    /\ nCmds < MaxCommands
    /\ nCmds' = nCmds + 1
    /\ \E txt \in RefreshTexts :
        LET newRefreshT == ToInt(Substring3(txt)) IN
        /\ rText' = txt
        /\ AutoRefreshTime' = IF RefreshAccepted(newRefreshT)
                                THEN newRefreshT ELSE AutoRefreshTime
    /\ UNCHANGED <<timetickCounter, TimeReadTick, runState, vDataArrayIdx, arrays,
                   temps, notifyPending, oobWrite, dataLocals, wpc, wChar,
                   newRunStart, ThermoUnit, eeUnit, readVars, adcVars, probeVars,
                   wdtVars>>

\* --------------------------------- specification: every kind of command

NextConfig ==
    \/ onTimer
    \/ dataTestProcess
    \/ processUrlCommands
    \/ WebTempUnit
    \/ WebRefresh

SpecConfig == Init /\ [][NextConfig]_vars

\* ------------- specification: the unit changed while records are sent

\* the state at the end of setup() with any unit byte in the EEPROM; the
\* changes of the unit are recorded
InitDisplay ==
    /\ ZeroGlobals
    /\ runState = RUN_STATE_RUN
    /\ eeUnit \in UnitBytes /\ ThermoUnit = eeUnit
    /\ NoUnitProbe /\ NoConvProbe /\ NoBand
    /\ hMode = "unit" /\ hT = -1 /\ hK = 0 /\ hW = 0 /\ hNeed = -1 /\ hPrev = "-"
    /\ hLast = -1 /\ hQuiet = 0
    /\ hFull = FALSE /\ hTicks = 0 /\ hGiven = 0
    /\ NoConn

\* the timer, the acquisition task and the web task applying unit and
\* refresh commands and sending the csv data
NextDisplay ==
    \/ onTimer
    \/ dataTestProcess
    \/ WebTempUnit
    \/ WebRefresh
    \/ printCsvData

SpecDisplay == InitDisplay /\ [][NextDisplay]_vars

\* ------------------------- specification: the connections of the web task

\* onTimer up to the load of g_wdt_cnt++: timerMux is taken, timetickCounter++
\* is done.  The web task clears g_wdt_cnt without taking timerMux, so its
\* store can fall between this load and the store that follows.
TimerLoad(limit) ==
    /\ tReg = -1
    /\ timetickCounter < limit
    /\ timetickCounter' = timetickCounter + 1
    /\ tReg' = g_wdt_cnt
    /\ HistExpiry(TRUE, FALSE)
    /\ UNCHANGED <<TimeReadTick, runState, vDataArrayIdx, arrays, temps,
                   notifyPending, oobWrite, dataLocals, webLocals, extState,
                   g_wdt_cnt, connLocals>>

\* the store of g_wdt_cnt++, portEXIT_CRITICAL_ISR and vTaskNotifyGiveFromISR
TimerStore ==
    /\ tReg # -1
    /\ g_wdt_cnt' = tReg + 1
    /\ tReg' = -1
    /\ notifyPending' = (dpc # "none" \/ notifyPending)
    /\ HistExpiry(FALSE, TRUE)
    /\ UNCHANGED <<timetickCounter, TimeReadTick, runState, vDataArrayIdx, arrays,
                   temps, oobWrite, dataLocals, webLocals, extState, connLocals>>

onTimerByStore ==
    \/ TimerLoad(MaxTick)
    \/ TimerStore

\* what no step of the connection loop itself touches
ConnFrame ==
    UNCHANGED <<timetickCounter, TimeReadTick, runState, vDataArrayIdx, arrays,
                temps, notifyPending, oobWrite, dataLocals, webLocals, extState,
                tReg>>

\* g_wdt_cnt = 0;
ClearWdt == g_wdt_cnt' = 0 /\ HistHeard

\* server.available() returns no client: g_wdt_cnt = 0, taskYIELD and again
WebListen ==
    /\ cpc = "listen"
    /\ ClearWdt
    /\ UNCHANGED connLocals
    /\ ConnFrame

\* server.available() returns a client, who is about to send request r:
\* g_wdt_cnt = 0 and the loop while (client.connected()) is entered
WebAccept ==
    /\ cpc = "listen"
    /\ nConns < MaxConns
    /\ nConns' = nConns + 1
    /\ \E r \in Requests : cSend' = r
    /\ cpc' = "open" /\ isWaitPkt' = 0 /\ cIn' = <<>> /\ header' = <<>>
    /\ ClearWdt
    /\ ConnFrame

\* the next part of the request arrives
ClientSend ==
    /\ cpc = "open"
    /\ cSend # <<>>
    /\ cIn' = Append(cIn, Head(cSend))
    /\ cSend' = Tail(cSend)
    /\ UNCHANGED <<cpc, isWaitPkt, header, nConns, g_wdt_cnt, hist>>
    /\ ConnFrame

\* the client has closed the connection and nothing is left to read:
\* client.connected() is false, the loop is left
WebClientLeft ==
    /\ cpc = "open"
    /\ cIn = <<>>
    /\ cpc' = "sent"
    /\ cSend' = <<>>
    /\ UNCHANGED <<isWaitPkt, cIn, header, nConns, g_wdt_cnt, hist>>
    /\ ConnFrame

\* g_wdt_cnt >= 10
TimedOut(cnt) == cnt >= WDT_TIMEOUT

\* if (g_wdt_cnt >= 10) break;
WebTimeout ==
    /\ cpc = "open"
    /\ TimedOut(g_wdt_cnt)
    /\ cpc' = "sent"
    /\ UNCHANGED <<isWaitPkt, cSend, cIn, header, nConns, g_wdt_cnt, hist>>
    /\ ConnFrame

\* if (client.available()): isWaitPkt = 1; g_wdt_cnt = 0; client.read() and
\* header += c
WebReadByte ==
    /\ cpc = "open"
    /\ ~TimedOut(g_wdt_cnt)
    /\ cIn # <<>>
    /\ isWaitPkt' = 1
    /\ ClearWdt
    /\ header' = Append(header, Head(cIn))
    /\ cIn' = Tail(cIn)
    /\ UNCHANGED <<cpc, cSend, nConns>>
    /\ ConnFrame

\* nothing to read and nothing read yet: isWaitPkt = 0; taskYIELD()
WebYield ==
    /\ cpc = "open"
    /\ ~TimedOut(g_wdt_cnt)
    /\ cIn = <<>>
    /\ isWaitPkt = 0
    /\ isWaitPkt' = 0
    /\ UNCHANGED <<cpc, cSend, cIn, header, nConns, g_wdt_cnt, hist>>
    /\ ConnFrame

\* nothing to read after something was read: the keywords are located in
\* the header and the function for it is about to be called
WebDispatch ==
    /\ cpc = "open"
    /\ ~TimedOut(g_wdt_cnt)
    /\ cIn = <<>>
    /\ isWaitPkt = 1
    /\ cpc' = "serve"
    /\ UNCHANGED <<isWaitPkt, cSend, cIn, header, nConns, g_wdt_cnt, hist>>
    /\ ConnFrame

\* a function that writes nothing of the state followed here is called for
\* the header and returns
CallWhole(fn) ==
    /\ cpc = "serve"
    /\ PageOf(header) = fn
    /\ ServeWhole
    /\ UNCHANGED <<g_wdt_cnt, hist>>
    /\ ConnFrame

\* neither POST /config, POST /wifitest nor GET: no function is called
WebNoHandler == CallWhole("none")

\* processUrlCommands with a body that holds none of runStartSet=,
\* tempUnitSet= and refreshTSet=
WebNoField == wpc = "idle" /\ CallWhole("processUrlCommands")

\* testWiFiClient(): the WiFi mode is switched and switched back
testWiFiClient == CallWhole("testWiFiClient")

\* printSettingsPage(client): the form, filled in from AutoRefreshTime,
\* ThermoUnit and runState
printSettingsPage == CallWhole("printSettingsPage")

\* print404Page(client)
print404Page == CallWhole("print404Page")

\* client.stop() after the loop, and back to the top of while (1)
WebClientStop ==
    /\ cpc = "sent"
    /\ cpc' = "listen"
    /\ isWaitPkt' = 0 /\ cSend' = <<>> /\ cIn' = <<>> /\ header' = <<>>
    /\ UNCHANGED <<nConns, g_wdt_cnt, hist>>
    /\ ConnFrame

webServerProcess ==
    \/ WebListen
    \/ WebAccept
    \/ ClientSend
    \/ WebClientLeft
    \/ WebTimeout
    \/ WebReadByte
    \/ WebYield
    \/ WebDispatch
    \/ WebNoHandler
    \/ processUrlCommands
    \/ WebTempUnit
    \/ WebRefresh
    \/ WebNoField
    \/ testWiFiClient
    \/ printSettingsPage
    \/ printTempPlotData
    \/ printCsvData
    \/ print404Page
    \/ WebClientStop

\* the state at the end of setup(), the web task at the top of its loop;
\* the ticks without a byte are recorded
InitWeb ==
    /\ ZeroGlobals
    /\ runState = RUN_STATE_RUN
    /\ eeUnit = 0 /\ ThermoUnit = eeUnit
    /\ NoUnitProbe /\ NoConvProbe /\ NoBand
    /\ hMode = "conn" /\ hT = -1 /\ hK = 0 /\ hW = 0 /\ hNeed = -1 /\ hPrev = "-"
    /\ hLast = -1 /\ hQuiet = 0
    /\ hFull = FALSE /\ hTicks = 0 /\ hGiven = 0
    /\ ConnAt("listen")

NextWeb ==
    \/ onTimerByStore
    \/ dataTestProcess
    \/ webServerProcess

SpecWeb == InitWeb /\ [][NextWeb]_vars

\* ----------------------------- specification: the unit conversion alone

\* stored values handed to tempUnitConversion: around zero (both signs of the
\* division), the sentinel, the ends of int16_t and the ends of the range
\* whose Fahrenheit value fits in 16 bits
UnitInputs ==
    (-12 .. 12) \cup {250, 251, 1000, -400, CONST_INVALID_TEMP,
                      18026, 18027, 32767, -18382, -18383, -32768}

\* a page hands one stored value to tempUnitConversion
ConvertSample ==
    /\ wpc = "idle" /\ rpc = "idle"
    /\ uOut' = tempUnitConversion(uIn)
    /\ uDone' = TRUE
    /\ UNCHANGED <<core, cfgVars, readVars, adcVars, uIn, convVars, bandVars, hist,
                   connVars>>

InitUnit ==
    /\ ZeroGlobals
    /\ runState = RUN_STATE_RUN
    /\ eeUnit \in UnitBytes /\ ThermoUnit = eeUnit
    /\ uIn \in UnitInputs /\ uOut = 0 /\ uDone = FALSE
    /\ NoConvProbe /\ NoBand /\ NoHist /\ NoConn

NextUnit ==
    \/ WebTempUnit
    \/ ConvertSample

SpecUnit == InitUnit /\ [][NextUnit]_vars

\* ------------------------------------------------- conversion functions
\* The functions compute in float and double (log, pow) and return the
\* temperature in tenths of a degree, truncated.  Here they are computed in
\* integers: logarithms scaled by LnScale, the curves scaled by 10000.  The
\* value computed is within CurveTol tenths of what the float code returns.

LnScale == 100000

\* log(2) scaled by LnScale
Ln2 == 69315

\* distance in tenths of a degree between the integer and the float result
CurveTol == 1

\* largest mV handed to a conversion function that the model follows
MaxMilliVolt == 3400

Abs(x) == IF x < 0 THEN -x ELSE x

RECURSIVE Log2Floor(_)
Log2Floor(n) == IF n < 2 THEN 0 ELSE 1 + Log2Floor(n \div 2)

\* log(n) for an integer n >= 1, scaled by LnScale:
\* n = m * 2^k with 1 <= m < 2, log(m) = 2 * atanh((m - 1) / (m + 1))
LnInt(n) ==
    LET k == Log2Floor(n)
        p == 2 ^ k
        z == ((n - p) * LnScale) \div (n + p)
        z2 == (z * z) \div LnScale
        t3 == (z * z2) \div LnScale
        t5 == (t3 * z2) \div LnScale
        t7 == (t5 * z2) \div LnScale
        t9 == (t7 * z2) \div LnScale
    IN  k * Ln2 + 2 * (z + t3 \div 3 + t5 \div 5 + t7 \div 7 + t9 \div 9)

\* a * b for a, b >= 0 scaled by 10000, without leaving 32 bits
MulScaled(a, b) ==
    ((a \div 1000) * b) \div 10 + ((a % 1000) * b) \div 10000

\* the float constant handed over as pu for a range tag: 0.98, 50.0, 1000.0
PullUp(tag) == IF tag = 1 THEN <<98, 100>> ELSE <<tag, 1>>

\* Rt = pu / (3300.0 / mV - 1.0); lgrt = log(Rt);   scaled by LnScale
LogRt(mV, pu) == LnInt(pu[1]) + LnInt(mV) - LnInt(pu[2]) - LnInt(3300 - mV)

\* (c0 - c1 * lgrt + c3 * pow(lgrt, 3)) * 10 scaled by 10000, with c0 given
\* times 100000, c1 times 10 and c3 times 1000
Cubic(lg, c0, c1, c3) ==
    LET l == Abs(lg) \div 10
        l3 == MulScaled(MulScaled(l, l), l)
        sgn == IF lg < 0 THEN -1 ELSE 1
    IN  c0 - sgn * c1 * l + sgn * ((c3 * l3) \div 100)

\* mutant: return (Temp * 1000)
Tenths_Milli(t) == IntDiv(t, 100)

\* return (Temp * 10): the conversion of the float to int truncates
Tenths(t) == IntDiv(t, 10000)

\* mutant: the window test with <= and >=
OutOfWindow_Inclusive(mV, lo, hi) == mV <= lo \/ mV >= hi

\* mV < lo || mV > hi
OutOfWindow(mV, lo, hi) == mV < lo \/ mV > hi

\* mutant: convVoltageToTemp without its window test
convVoltageToTemp_Unchecked(mV) ==
    LET lg == LnInt(mV) - LnInt(3300 - mV)
        d == (298 * lg + 3950 * LnScale) \div 1000
    IN  (1177100000 \div d) - 2730

\* int convVoltageToTemp(int mV), the fixed 50K network:
\* Temp = 1/3950.0 * log(Rt / 50000.0);
\* Temp = 1.0 / (Temp + 1.0 / (25+273)) - 273;
\* that is 3950 * 298 / (298 * log(mV / (3300 - mV)) + 3950) - 273
convVoltageToTemp(mV) ==
    IF OutOfWindow(mV, 200, 2000)
      THEN CONST_INVALID_TEMP
      ELSE LET lg == LnInt(mV) - LnInt(3300 - mV)
               d == (298 * lg + 3950 * LnScale) \div 1000
           IN  (1177100000 \div d) - 2730

\* int convVoltageToTempPb7(int mV):
\* Temp = 447 - 31.1 * lgrt + 0.105 * pow(lgrt, 3) - 273.15 with pu 50.0
convVoltageToTempPb7(mV) ==
    IF OutOfWindow(mV, 150, 3000)
      THEN CONST_INVALID_TEMP
      ELSE Tenths(Cubic(LogRt(mV, <<50, 1>>), 17385000, 311, 105))

\* int convVoltageToTempPb7_pu(int mV, float pu)
convVoltageToTempPb7_pu(mV, pu) ==
    IF OutOfWindow(mV, 100, 3000)
      THEN CONST_INVALID_TEMP
      ELSE Tenths(Cubic(LogRt(mV, pu), 17385000, 311, 105))

\* int convVoltageToTempTP10_pu(int mV, float pu):
\* Temp = 433.5 - 33.2 * lgrt + 0.18 * pow(lgrt, 3) - 273.15
convVoltageToTempTP10_pu(mV, pu) ==
    IF OutOfWindow(mV, 100, 3000)
      THEN CONST_INVALID_TEMP
      ELSE Tenths(Cubic(LogRt(mV, pu), 16035000, 332, 180))

\* ------------------------------------------------------ updateAdcReadings

\* sensorValue * 1000 / ADC_11DB_VAR_B + ADC_11DB_VAR_A, with
\* ADC_11DB_VAR_B = 1220 * 1.063 = 1296.86 and ADC_11DB_VAR_A = 150
Calib11dB(raw) == (raw * 100000) \div 129686 + 150

\* sensorValue * 1000 / ADC_0DB_VAR_B + ADC_0DB_VAR_A, with
\* ADC_0DB_VAR_B = 4153 * 1.063 = 4414.639 and ADC_0DB_VAR_A = 77;
\* the quotient raw * 1000000 / 4414639 is taken digit by digit
Calib0dB(raw) ==
    LET m == 4414639
        r0 == raw * 1000
        r1 == (r0 * 10) % m
        r2 == (r1 * 10) % m
    IN  100 * ((r0 * 10) \div m) + 10 * ((r1 * 10) \div m) + (r2 * 10) \div m + 77

\* the values sensorValue_TAN2 / sensorValue_TAN3 can get when analogRead
\* returns a value of r11 at 11 dB and a value of r0 at 0 dB: the 11 dB
\* reading, or, if that is below 1000, the reading taken again at 0 dB
TanSensorValues(r11, r0) ==
    { Calib11dB(r) : r \in { x \in r11 : Calib11dB(x) >= 1000 } }
      \cup (IF \E x \in r11 : Calib11dB(x) < 1000
              THEN { Calib0dB(r) : r \in r0 } ELSE {})

\* analogRead values of the model.  At 11 dB: 227, 1500, 2099, 2100, 2101,
\* 2749, 2750, 2751 and 3001 mV; at 0 dB: 99, 199, 200, 201, 243, 244 and
\* 245 mV; for TAN0 and TAN1: 1000 and 2500 mV
Raw11dB == {100, 1751, 2528, 2529, 2531, 3371, 3372, 3374, 3698}
Raw0dB == {98, 539, 544, 548, 733, 738, 742}
RawFixed == {1103, 3048}

\* fewer of them, for the specification that also appends: 1500 and 3001 mV
\* at 11 dB (and 227, to read again at 0 dB), 99 mV at 0 dB
SampleRaw11dB == {100, 1751, 3698}
SampleRaw0dB == {98}

\* mutant: the 1M range left as soon as the reading is no longer above the
\* 2100 mV that entered it
NextRange_NoHysteresis(pu, sv) ==
    IF pu = 50
      THEN (IF sv < 244 THEN 1 ELSE IF sv > 2100 THEN 1000 ELSE 50)
      ELSE IF pu = 1000
        THEN (IF sv <= 2100 THEN 50 ELSE 1000)
        ELSE (IF sv > 2750 THEN 50 ELSE pu)

\* the if / else if chain on tempN_pu and sensorValue: the range after it
NextRange(pu, sv) ==
    IF pu = 50
      THEN (IF sv < 244 THEN 1 ELSE IF sv > 2100 THEN 1000 ELSE 50)
      ELSE IF pu = 1000
        THEN (IF sv < 200 THEN 50 ELSE 1000)
        ELSE (IF sv > 2750 THEN 50 ELSE pu)

\* mutant: the 1K pull pin left driven when the 1K range is left
NextPin1K_LeftDriven(pu, sv, pin) ==
    IF pu = 50 /\ sv < 244 THEN "OUTPUT_HIGH"
    ELSE pin

\* the pinMode / digitalWrite calls of the chain: the 1K pull pin and the
\* 50K pull pin of the channel after it
NextPin1K(pu, sv, pin) ==
    IF pu = 50 /\ sv < 244 THEN "OUTPUT_HIGH"
    ELSE IF pu # 50 /\ pu # 1000 /\ sv > 2750 THEN "INPUT"
    ELSE pin

NextPin50K(pu, sv, pin) ==
    IF pu = 50 /\ sv >= 244 /\ sv > 2100 THEN "INPUT"
    ELSE IF pu = 1000 /\ sv < 200 THEN "OUTPUT_HIGH"
    ELSE pin

\* mutant: the range of TAN3 switched on the reading of TAN2
updateAdcReadings_CrossWired(raw0, raw1, sv2, sv3) ==
    /\ temp0C' = convVoltageToTemp(Calib11dB(raw0))
    /\ temp1C' = convVoltageToTemp(Calib11dB(raw1))
    /\ temp2C' = convVoltageToTempTP10_pu(sv2, PullUp(temp2_pu))
    /\ temp2_pu' = NextRange(temp2_pu, sv2)
    /\ temp3C' = convVoltageToTempTP10_pu(sv3, PullUp(temp3_pu))
    /\ temp3_pu' = NextRange(temp3_pu, sv2)
    /\ pullPins' = [a2_50k |-> NextPin50K(temp2_pu, sv2, pullPins.a2_50k),
                    a2_1k |-> NextPin1K(temp2_pu, sv2, pullPins.a2_1k),
                    a3_50k |-> NextPin50K(temp3_pu, sv2, pullPins.a3_50k),
                    a3_1k |-> NextPin1K(temp3_pu, sv2, pullPins.a3_1k)]
    /\ svLast' = <<Calib11dB(raw0), Calib11dB(raw1), sv2, sv3>>

\* mutant: the temperatures of TAN2 and TAN3 computed with the range the
\* chain has switched to
updateAdcReadings_RangeAfter(raw0, raw1, sv2, sv3) ==
    /\ temp0C' = convVoltageToTemp(Calib11dB(raw0))
    /\ temp1C' = convVoltageToTemp(Calib11dB(raw1))
    /\ temp2C' = convVoltageToTempTP10_pu(sv2, PullUp(NextRange(temp2_pu, sv2)))
    /\ temp2_pu' = NextRange(temp2_pu, sv2)
    /\ temp3C' = convVoltageToTempTP10_pu(sv3, PullUp(NextRange(temp3_pu, sv3)))
    /\ temp3_pu' = NextRange(temp3_pu, sv3)
    /\ pullPins' = [a2_50k |-> NextPin50K(temp2_pu, sv2, pullPins.a2_50k),
                    a2_1k |-> NextPin1K(temp2_pu, sv2, pullPins.a2_1k),
                    a3_50k |-> NextPin50K(temp3_pu, sv3, pullPins.a3_50k),
                    a3_1k |-> NextPin1K(temp3_pu, sv3, pullPins.a3_1k)]
    /\ svLast' = <<Calib11dB(raw0), Calib11dB(raw1), sv2, sv3>>

\* updateAdcReadings for the readings raw0 and raw1 of TAN0 and TAN1 and the
\* sensor values sv2 and sv3 of TAN2 and TAN3
updateAdcReadings(raw0, raw1, sv2, sv3) ==
    /\ temp0C' = convVoltageToTemp(Calib11dB(raw0))
    /\ temp1C' = convVoltageToTemp(Calib11dB(raw1))
    /\ temp2C' = convVoltageToTempTP10_pu(sv2, PullUp(temp2_pu))
    /\ temp2_pu' = NextRange(temp2_pu, sv2)
    /\ temp3C' = convVoltageToTempTP10_pu(sv3, PullUp(temp3_pu))
    /\ temp3_pu' = NextRange(temp3_pu, sv3)
    /\ pullPins' = [a2_50k |-> NextPin50K(temp2_pu, sv2, pullPins.a2_50k),
                    a2_1k |-> NextPin1K(temp2_pu, sv2, pullPins.a2_1k),
                    a3_50k |-> NextPin50K(temp3_pu, sv3, pullPins.a3_50k),
                    a3_1k |-> NextPin1K(temp3_pu, sv3, pullPins.a3_1k)]
    /\ svLast' = <<Calib11dB(raw0), Calib11dB(raw1), sv2, sv3>>

\* if (LastTimeTick != timetickCounter) updateAdcReadings();  with the
\* readings taken from the ADC; LastTimeTick is never initialised or
\* assigned, so the test may go either way
DataUpdateAdc ==
    /\ dpc = "adc"
    /\ \/ \E raw0 \in RawFixed, raw1 \in {1103},
             sv2 \in TanSensorValues(SampleRaw11dB, SampleRaw0dB),
             sv3 \in TanSensorValues({1751}, {}) :
            updateAdcReadings(raw0, raw1, sv2, sv3)
       \/ UNCHANGED <<temps, adcVars>>
    /\ dpc' = "deadline"
    /\ HistSeen
    /\ UNCHANGED <<timetickCounter, TimeReadTick, runState, vDataArrayIdx, arrays,
                   notifyPending, oobWrite, dIdx, dTrt, webLocals,
                   cfgVars, readVars, unitVars, convVars, bandVars, connVars>>

\* ------------------- specification: a run with the readings of the ADC

NextSample ==
    \/ onTimer
    \/ DataTake
    \/ DataUpdateAdc
    \/ DataDeadline
    \/ DataRunState
    \/ DataWriteRecord
    \/ DataIncIdx
    \/ DataFull
    \/ DataAdvance

SpecSample == Init /\ [][NextSample]_vars

\* the same run, with the tick each wake-up finds recorded
InitWake == InitRecording("wake")

SpecWake == InitWake /\ [][NextSample]_vars

\* --------------- specification: updateAdcReadings called again and again

\* the switch thresholds of the chain: 244 and 2100 in the 50K range, 200 in
\* the 1M range, 2750 in the 1K range
Thresholds == {244, 2100, 200, 2750}

\* number of calls followed while the readings alternate around a threshold
MaxBandCalls == 3

\* the sensor values the ADC of the model can deliver
SensorValues == TanSensorValues(Raw11dB, Raw0dB)

\* those of them around the threshold t
Around(t) == { v \in SensorValues : v >= t - 1 /\ v <= t + 1 }

AdcFrame ==
    UNCHANGED <<timetickCounter, TimeReadTick, runState, vDataArrayIdx, arrays,
                notifyPending, oobWrite, dataLocals, webLocals,
                cfgVars, readVars, unitVars, convVars, hist, connVars>>

\* one call of updateAdcReadings, with any reading on TAN2 and TAN3
AdcCall ==
    /\ band = 0
    /\ \E sv2 \in SensorValues, sv3 \in SensorValues :
          updateAdcReadings(1103, 1103, sv2, sv3)
    /\ UNCHANGED bandVars
    /\ AdcFrame

\* from here on the readings of TAN2 and TAN3 alternate around the
\* threshold t
BandBegin ==
    /\ band = 0
    /\ \E t \in Thresholds : band' = t
    /\ trail2' = <<temp2_pu>>
    /\ trail3' = <<temp3_pu>>
    /\ UNCHANGED <<temps, adcVars>>
    /\ AdcFrame

\* one call of updateAdcReadings with readings around the threshold, each
\* different from the reading of the call before
AdcBandCall ==
    /\ band # 0
    /\ Len(trail2) <= MaxBandCalls
    /\ \E sv2 \in Around(band) \ {svLast[3]}, sv3 \in Around(band) \ {svLast[4]} :
          updateAdcReadings(1103, 1103, sv2, sv3)
    /\ trail2' = Append(trail2, temp2_pu')
    /\ trail3' = Append(trail3, temp3_pu')
    /\ UNCHANGED band
    /\ AdcFrame

NextAdc ==
    \/ AdcCall
    \/ BandBegin
    \/ AdcBandCall

SpecAdc == Init /\ [][NextAdc]_vars

\* ------------------------ specification: the conversion functions alone

ConvFunctions == {"conv", "pb7", "pb7pu", "tp10"}

\* values of temp2_pu and temp3_pu: 1 = 1K, 50 = 50K, 1000 = 1M
RangeTags == {1, 50, 1000}

MilliVolts == 0 .. MaxMilliVolt

\* updateAdcReadings hands one reading to a conversion function
ConvApply ==
    /\ ~cDone
    /\ cOut' = CASE cFn = "conv" -> convVoltageToTemp(cMv)
                 [] cFn = "pb7" -> convVoltageToTempPb7(cMv)
                 [] cFn = "pb7pu" -> convVoltageToTempPb7_pu(cMv, PullUp(cPu))
                 [] cFn = "tp10" -> convVoltageToTempTP10_pu(cMv, PullUp(cPu))
    /\ cDone' = TRUE
    /\ UNCHANGED <<core, cfgVars, readVars, adcVars, unitVars, bandVars, hist,
                   connVars, cFn, cMv, cPu>>

InitConv ==
    /\ ZeroGlobals
    /\ runState = RUN_STATE_RUN
    /\ eeUnit = 0 /\ ThermoUnit = eeUnit
    /\ NoUnitProbe /\ NoBand /\ NoHist /\ NoConn
    /\ cFn \in ConvFunctions
    /\ cMv \in MilliVolts
    /\ cPu \in (IF cFn \in {"pb7pu", "tp10"} THEN RangeTags ELSE {50})
    /\ cOut = 0 /\ cDone = FALSE

NextConv == ConvApply

SpecConv == InitConv /\ [][NextConv]_vars

\* ------------------------------------------------- scenario: one full run

\* last tick of the scenario: two ticks after the buffer has filled
ScenLastTick == DATA_ARRAY_SIZE * MEAS_INTERVAL + 2

\* The state Spec reaches when a reset command (runStartSet=3) is applied
\* right after boot, before the first tick and the first wake-up: Stopped,
\* tick 0, empty buffer.  One command is left: the start.
ScenInit ==
    /\ timetickCounter = 0
    /\ TimeReadTick = 0
    /\ runState = RUN_STATE_STOP
    /\ vDataArrayIdx = 0
    /\ t0Array = [i \in Slots |-> 0]
    /\ t1Array = [i \in Slots |-> 0]
    /\ t2Array = [i \in Slots |-> 0]
    /\ t3Array = [i \in Slots |-> 0]
    /\ temp0C = 0 /\ temp1C = 0 /\ temp2C = 0 /\ temp3C = 0
    /\ notifyPending = FALSE
    /\ g_wdt_cnt = 0 /\ tReg = -1
    /\ oobWrite = FALSE
    /\ dpc = "wait" /\ dIdx = 0 /\ dTrt = 0
    /\ wpc = "idle" /\ wChar = "0" /\ newRunStart = 0 /\ nCmds = MaxCommands - 1
    /\ eeUnit = 0 /\ ThermoUnit = eeUnit
    /\ NoProbe
    /\ AutoRefreshTime = AutoRefreshBoot /\ rText = <<>>
    /\ NoPage
    /\ AdcBoot

\* the start command has been applied completely
ScenStarted == wpc = "idle" /\ nCmds = MaxCommands

\* the acquisition task has finished the wake-up of the current tick
ScenAtRest == ScenStarted /\ dpc = "wait" /\ ~notifyPending

\* runStartSet=1 at tick 0
ScenStart == WebCommandOf("1")

\* the next tick fires once the wake-up of the previous one is over
ScenTick == ScenAtRest /\ Tick(ScenLastTick)

\* one wake-up per tick: the task is woken by the notification only
ScenWake == notifyPending /\ DataTake

ScenNext ==
    \/ ScenStart
    \/ WebStartTest
    \/ WebSetRunState
    \/ WebDone
    \/ ScenTick
    \/ ScenWake
    \/ DataAdc
    \/ DataDeadline
    \/ DataRunState
    \/ DataWriteRecord
    \/ DataIncIdx
    \/ DataFull
    \/ DataAdvance

SpecScenario == ScenInit /\ [][ScenNext]_vars

\* ------------------------------------------------------------------- claims

Min(a, b) == IF a <= b THEN a ELSE b

\* C1: in every reachable state vDataArrayIdx <= DATA_ARRAY_SIZE, and
\* runSingleCheck has never stored a record at an index >= DATA_ARRAY_SIZE.
C1_IndexWithinCapacity ==
    /\ vDataArrayIdx <= DATA_ARRAY_SIZE
    /\ ~oobWrite

\* C2: an append (the stores of runSingleCheck) with the length below
\* DATA_ARRAY_SIZE stores the four live temperatures at the current length;
\* an append with the length already at DATA_ARRAY_SIZE stores nothing, and
\* the increment that follows leaves the length unchanged.
C2_AppendStopsAtCapacity ==
    [][ /\ (dpc = "rec" /\ dpc' = "inc") =>
            IF vDataArrayIdx < DATA_ARRAY_SIZE
              THEN /\ t0Array'[vDataArrayIdx] = temp0C
                   /\ t1Array'[vDataArrayIdx] = temp1C
                   /\ t2Array'[vDataArrayIdx] = temp2C
                   /\ t3Array'[vDataArrayIdx] = temp3C
              ELSE UNCHANGED <<arrays, oobWrite>>
        /\ (dpc = "inc" /\ dpc' = "full" /\ vDataArrayIdx >= DATA_ARRAY_SIZE) =>
            UNCHANGED vDataArrayIdx
      ]_vars

\* C3: after a start command applied in Stopped at tick 0 with an empty
\* buffer, with one wake-up per tick and no further command, record k
\* (k = 0 .. DATA_ARRAY_SIZE-1) is appended in the wake-up of tick
\* (k+1)*MEAS_INTERVAL and at no other tick: the length is never ahead of
\* tick / MEAS_INTERVAL, equals it (capped at DATA_ARRAY_SIZE) once the
\* wake-up of a tick is over, the run is Running until the last append and
\* Stopped from then on, and nothing is stored past the end.
C3_RunFillsBuffer ==
    ScenStarted =>
        /\ vDataArrayIdx <= Min(timetickCounter \div MEAS_INTERVAL, DATA_ARRAY_SIZE)
        /\ ~oobWrite
        /\ ScenAtRest =>
            /\ vDataArrayIdx = Min(timetickCounter \div MEAS_INTERVAL, DATA_ARRAY_SIZE)
            /\ TimeReadTick = (vDataArrayIdx + 1) * MEAS_INTERVAL
            /\ runState = IF timetickCounter >= DATA_ARRAY_SIZE * MEAS_INTERVAL
                            THEN RUN_STATE_STOP ELSE RUN_STATE_RUN

\* the buffer has filled, the run has stopped, and later ticks went by
C3_Witness ==
    /\ ScenAtRest
    /\ timetickCounter > DATA_ARRAY_SIZE * MEAS_INTERVAL
    /\ vDataArrayIdx = DATA_ARRAY_SIZE
    /\ runState = RUN_STATE_STOP

\* C4: when a reset command (runStartSet=3) completes, runState is Stopped,
\* timetickCounter is 0 and vDataArrayIdx is 0.
C4_ResetCompletes ==
    (wpc = "done" /\ wChar = "3") =>
        /\ runState = RUN_STATE_STOP
        /\ timetickCounter = 0
        /\ vDataArrayIdx = 0

\* a reset has completed and left a non-empty length behind: an append that
\* was in progress stored its incremented index after the reset's store of 0
C4_Witness ==
    /\ wpc = "done" /\ wChar = "3"
    /\ runState = RUN_STATE_STOP
    /\ vDataArrayIdx # 0

\* C5: the reset is atomic: between its first store (timetickCounter = 0)
\* and its last (runState = RUN_STATE_STOP) no step of onTimer or of
\* dataTestProcess happens, only the web task moves.
C5_ResetAtomic ==
    [][ (wpc \in {"rst_idx", "rst_state"}) => (wpc' # wpc) ]_vars

\* C6: a start command (runStartSet=1) applied while runState is Stopped
\* sets TimeReadTick to timetickCounter + MEAS_INTERVAL and then runState to
\* Running; neither of its steps changes the length, the records or the tick.
C6_StartFromStopped ==
    [][ /\ (wpc = "test" /\ wpc' = "set" /\ wChar = "1"
                /\ runState = RUN_STATE_STOP) =>
            /\ TimeReadTick' = timetickCounter + MEAS_INTERVAL
            /\ UNCHANGED <<timetickCounter, vDataArrayIdx, arrays>>
        /\ (wpc = "set" /\ wpc' = "done" /\ wChar = "1"
                /\ runState = RUN_STATE_STOP) =>
            /\ runState' = RUN_STATE_RUN
            /\ UNCHANGED <<timetickCounter, vDataArrayIdx, arrays, TimeReadTick>>
      ]_vars

\* a start found Stopped at an odd tick and has set the deadline from it
C6_Witness ==
    /\ wpc = "done" /\ wChar = "1"
    /\ runState = RUN_STATE_RUN
    /\ timetickCounter % MEAS_INTERVAL # 0
    /\ TimeReadTick = timetickCounter + MEAS_INTERVAL

\* C7: a start command applied while runState is Running does not write
\* TimeReadTick and stores Running into runState, also when it is repeated.
C7_StartWhileRunning ==
    [][ (wChar = "1" /\ wpc \in {"test", "set"} /\ wpc' # wpc
            /\ runState = RUN_STATE_RUN) =>
            /\ TimeReadTick' = TimeReadTick
            /\ runState' = RUN_STATE_RUN
      ]_vars

\* the second of two start commands in a row, both applied in Running: the
\* deadline is still the one set at boot
C7_Witness ==
    /\ wpc = "done" /\ wChar = "1" /\ nCmds = 2
    /\ runState = RUN_STATE_RUN
    /\ timetickCounter > 0
    /\ TimeReadTick = 0

\* C9: when a stop command (runStartSet=0) completes, runState is Stopped,
\* whatever the length, the tick and the deadline.
C9_StopAlwaysStops ==
    (wpc = "done" /\ wChar = "0") => runState = RUN_STATE_STOP

\* a stop applied to the run started at boot, with the buffer not full
C9_Witness ==
    /\ wpc = "done" /\ wChar = "0" /\ nCmds = 1
    /\ runState = RUN_STATE_STOP
    /\ vDataArrayIdx > 0 /\ vDataArrayIdx < DATA_ARRAY_SIZE
    /\ ~oobWrite

\* C10: in every reachable state runState is Stopped, Running or Ended.
C10_RunStateInRange ==
    runState \in {RUN_STATE_STOP, RUN_STATE_RUN, RUN_STATE_END}

\* C11 (as the code has it): at the start of the two tasks runState is
\* Running, the buffer is empty and the deadline is tick 0; as long as no
\* command has been received the run stays Running until the buffer is full,
\* records are appended without any start command, and between wake-ups the
\* deadline is vDataArrayIdx * MEAS_INTERVAL.
C11_BootRunning ==
    nCmds = 0 =>
        /\ \/ runState = RUN_STATE_RUN
           \/ runState = RUN_STATE_STOP /\ vDataArrayIdx = DATA_ARRAY_SIZE
        /\ vDataArrayIdx <= DATA_ARRAY_SIZE
        /\ dpc = "wait" => TimeReadTick = vDataArrayIdx * MEAS_INTERVAL

\* a record has been appended before the first tick and before any command
C11_Witness ==
    /\ nCmds = 0
    /\ timetickCounter = 0
    /\ vDataArrayIdx = 1
    /\ runState = RUN_STATE_RUN

\* C11 as stated: as long as no command has been received runState is
\* Stopped and no record has been appended.
C11_StoppedUntilStart ==
    nCmds = 0 => (runState = RUN_STATE_STOP /\ vDataArrayIdx = 0)

\* record i of the buffer, one value per channel
RecordAt(i) == <<t0Array[i], t1Array[i], t2Array[i], t3Array[i]>>

\* what a completely written record can hold: the four live temperatures of
\* one updateAdcReadings, or the four zeros the temperatures have at boot
CompleteRecords == TempVectors \cup { <<0, 0, 0, 0>> }

\* C12: while a run appends and the web task sends pages, every record below
\* vDataArrayIdx is completely written (its four values are those of one
\* sample, and it is not the record the acquisition task is storing), the
\* loops of printCsvData and printTempPlotData read only indices below
\* vDataArrayIdx, and every row printCsvData sends is a complete record.
C12_ReaderSeesCompleteRecords ==
    /\ \A i \in Slots : i < vDataArrayIdx =>
            /\ RecordAt(i) \in CompleteRecords
            /\ ~(dpc \in {"st1", "st2", "st3"} /\ dIdx = i)
    /\ rpc \in {"csv_row", "x_row", "y_row"} => rI < vDataArrayIdx
    /\ rRow # <<>> =>
            \E v \in CompleteRecords :
                rRow = <<(rI - 1) * MEAS_INTERVAL,
                         tempUnitConversion(v[1]), tempUnitConversion(v[2]),
                         tempUnitConversion(v[3]), tempUnitConversion(v[4])>>

\* printCsvData has sent every record below the length and is about to read
\* the length again, while the next record is half written
C12_Witness ==
    /\ rpc = "csv_test" /\ rRow # <<>>
    /\ rI = vDataArrayIdx
    /\ dpc = "st2" /\ dIdx = vDataArrayIdx
    /\ t0Array[dIdx] # 0 /\ t2Array[dIdx] = 0

\* C13: every step other than the reset command's store vDataArrayIdx = 0
\* leaves vDataArrayIdx the same or larger and changes no record at an index
\* below vDataArrayIdx, whatever the interleaving of reset and append.
C13_AppendOnly ==
    [][ ~(wpc = "rst_idx" /\ wpc' = "rst_state") =>
            /\ vDataArrayIdx' >= vDataArrayIdx
            /\ \A i \in Slots : i < vDataArrayIdx => RecordAt(i)' = RecordAt(i)
      ]_vars

\* C14: a step that changes timetickCounter is either an expiry of the timer
\* (the counter goes up by exactly one and neither task moves) or the first
\* store of a reset command (the counter becomes 0); so no step of the
\* acquisition loop and no start, stop, unit or refresh command changes it,
\* and it decreases only in a reset.
C14_TickWriters ==
    [][ timetickCounter' # timetickCounter =>
            \/ /\ timetickCounter' = timetickCounter + 1
               /\ UNCHANGED <<dataLocals, webLocals, cfgVars>>
            \/ /\ wpc = "rst_tick" /\ wpc' = "rst_idx" /\ wChar = "3"
               /\ timetickCounter' = 0
               /\ UNCHANGED <<dataLocals, cfgVars>>
      ]_vars

\* the tick has counted on while records were appended and while a unit and
\* a refresh command were applied
C14_Witness ==
    /\ timetickCounter = MaxTick
    /\ vDataArrayIdx > 0
    /\ ThermoUnit = CONFIG_USE_UNIT_F
    /\ AutoRefreshTime = 899

\* the indices below n, in order, whose value in the array being plotted is
\* not the sentinel
PlottedBelow(n) ==
    LET Keep(i) == DataArray(pCh)[i] # CONST_INVALID_TEMP
    IN  SelectSeq([k \in 1 .. n |-> k - 1], Keep)

\* C17: while printTempPlotData renders an array, the x points sent so far
\* are those of exactly the non-sentinel records the first loop has passed,
\* and the y points sent so far are those of exactly the non-sentinel records
\* the second loop has passed, each the stored value converted to the unit;
\* a record equal to the sentinel gets neither, whatever the unit.
C17_SentinelNotPlotted ==
    /\ rpc \in {"x_test", "x_row"} =>
            /\ pX = PlottedBelow(rI)
            /\ pY = <<>>
    /\ rpc \in {"y_test", "y_row", "plot_end"} =>
            /\ \E n \in 0 .. DATA_ARRAY_SIZE :
                    n <= vDataArrayIdx /\ pX = PlottedBelow(n)
            /\ pY = [k \in 1 .. Len(PlottedBelow(rI)) |->
                        <<PlottedBelow(rI)[k],
                          tempUnitConversion(DataArray(pCh)[PlottedBelow(rI)[k]])>>]
            /\ rpc = "plot_end" => rI >= Len(pX)

\* in Fahrenheit mode a trace whose record 0 is the sentinel and whose
\* record 1 is 25.0 C has been rendered: one x point, one y point, 77.0 F
C17_Witness ==
    /\ rpc = "plot_end" /\ pCh = 0 /\ rI = 2
    /\ ThermoUnit = CONFIG_USE_UNIT_F
    /\ t0Array[0] = CONST_INVALID_TEMP /\ t0Array[1] = 250
    /\ pX = << 1 >>
    /\ pY = << <<1, 770>> >>

\* C20: when tempUnitConversion is applied to a stored value c with the unit
\* set to Fahrenheit and c*9/5 + 320 within 16 bits, it returns q + 320 where
\* q is c*9 divided by 5 with the quotient truncated towards zero (250 gives
\* 770); with any other unit value it returns c.
C20_UnitConversion ==
    [][ (uDone' /\ UNCHANGED <<core, cfgVars>>) =>
            LET n == uIn * 9
                q == uOut' - 320
            IN  IF ThermoUnit = CONFIG_USE_UNIT_F
                  THEN /\ (n >= -165444 /\ n <= 162239) =>
                            IF n >= 0 THEN 5 * q <= n /\ n < 5 * (q + 1)
                                      ELSE 5 * q >= n /\ n > 5 * (q - 1)
                       /\ uIn = 250 => uOut' = 770
                  ELSE uOut' = uIn
      ]_vars

\* the unit was set to Fahrenheit by a command and -0.1 C has been converted
\* to 31.9 F: -9/5 is -1, not -2
C20_Witness ==
    /\ uDone /\ nCmds = 1
    /\ ThermoUnit = CONFIG_USE_UNIT_F /\ eeUnit = CONFIG_USE_UNIT_F
    /\ uIn = -1 /\ uOut = 319

\* the valid window of the conversion function being applied, as C15 gives it
\* (and 150 .. 3000 for convVoltageToTempPb7)
WindowLo == IF cFn = "conv" THEN 200 ELSE IF cFn = "pb7" THEN 150 ELSE 100
WindowHi == IF cFn = "conv" THEN 2000 ELSE 3000
InWindow == cMv >= WindowLo /\ cMv <= WindowHi

\* C15: a conversion function applied to a millivolt value outside its
\* window returns exactly CONST_INVALID_TEMP (convVoltageToTemp at 2500 mV
\* does), and applied to a value inside its window it does not return the
\* sentinel: the window test rejects nothing inside.
C15_WindowTest ==
    cDone =>
        /\ ~InWindow => cOut = CONST_INVALID_TEMP
        /\ InWindow => Abs(cOut - CONST_INVALID_TEMP) > CurveTol
        /\ (cFn = "conv" /\ cMv = 2500) => cOut = -5000

\* convVoltageToTemp has been applied to 2500 mV
C15_Witness ==
    /\ cDone /\ cFn = "conv" /\ cMv = 2500
    /\ cOut = CONST_INVALID_TEMP

\* C18: a conversion function applied to a millivolt value inside its window
\* (the fixed 50K network, and 0.98, 50.0 and 1000.0 as pu) returns a value
\* that, with the rounding of the float computation allowed for, lies in
\* -32768 .. 32767, is unchanged by the conversion to int16_t, and is not
\* the sentinel.
C18_FitsInt16 ==
    (cDone /\ InWindow) =>
        /\ cOut - CurveTol >= -32768
        /\ cOut + CurveTol <= 32767
        /\ ToInt16(cOut) = cOut
        /\ Abs(cOut - CONST_INVALID_TEMP) > CurveTol

\* the coldest end of the 1M range: 3000 mV is a few degrees below zero
C18_Witness ==
    /\ cDone /\ cFn = "tp10" /\ cPu = 1000 /\ cMv = 3000
    /\ cOut < 0 /\ cOut > -100

\* C16: after every step, once the ADC has been read, the live temperature
\* of a channel is the sentinel exactly if the channel's last reading is
\* outside its window (200 .. 2000 mV for TAN0 and TAN1, 100 .. 3000 mV for
\* TAN2 and TAN3), channel by channel; and an append stores the four live
\* temperatures as they are, so the record holds the sentinel for exactly
\* those channels and not an earlier temperature.
C16_SentinelPropagates ==
    [][ /\ svLast' # <<-1, -1, -1, -1>> =>
            /\ (temp0C' = CONST_INVALID_TEMP) <=> (svLast'[1] < 200 \/ svLast'[1] > 2000)
            /\ (temp1C' = CONST_INVALID_TEMP) <=> (svLast'[2] < 200 \/ svLast'[2] > 2000)
            /\ (temp2C' = CONST_INVALID_TEMP) <=> (svLast'[3] < 100 \/ svLast'[3] > 3000)
            /\ (temp3C' = CONST_INVALID_TEMP) <=> (svLast'[4] < 100 \/ svLast'[4] > 3000)
        /\ (dpc = "rec" /\ dpc' = "inc" /\ vDataArrayIdx \in Slots) =>
            RecordAt(vDataArrayIdx)' = <<temp0C, temp1C, temp2C, temp3C>>
      ]_vars

\* record 0 holds a valid temperature for TAN0; then TAN0 read 2500 mV and
\* TAN2 went out of its window too, and record 1 holds the sentinel for these
\* two channels and valid temperatures for the other two
C16_Witness ==
    /\ vDataArrayIdx = 2
    /\ svLast[1] = 2500
    /\ t0Array[0] # CONST_INVALID_TEMP /\ t0Array[0] # 0
    /\ t0Array[1] = CONST_INVALID_TEMP
    /\ t2Array[1] = CONST_INVALID_TEMP
    /\ t1Array[1] \notin {0, CONST_INVALID_TEMP}
    /\ t3Array[1] \notin {0, CONST_INVALID_TEMP}

\* the range a threshold belongs to: the chain tests 244 and 2100 in the 50K
\* range, 200 in the 1M range and 2750 in the 1K range
Owner(t) == IF t = 200 THEN 1000 ELSE IF t = 2750 THEN 1 ELSE 50

\* the reading sv is below the low threshold / above the high threshold of
\* the range pu
BelowLow(pu, sv) == pu # 1 /\ sv < (IF pu = 50 THEN 244 ELSE 200)
AboveHigh(pu, sv) == pu # 1000 /\ sv > (IF pu = 50 THEN 2100 ELSE 2750)

\* 1K, 50K and 1M in the order of their resistance
Rank(pu) == IF pu = 1 THEN 1 ELSE IF pu = 50 THEN 2 ELSE 3

\* number of range changes along a trail
RECURSIVE Changes(_)
Changes(tr) ==
    IF Len(tr) < 2 THEN 0
    ELSE (IF tr[1] # tr[2] THEN 1 ELSE 0) + Changes(Tail(tr))

\* a range that was left is not entered again
NoReturn(tr) ==
    \A i, j, k \in 1 .. Len(tr) :
        (i < j /\ j < k /\ tr[i] # tr[j]) => tr[k] # tr[i]

\* one call of updateAdcReadings took a channel from the range pu to the
\* range pv on the reading sv as the claim says: one range down below the
\* low threshold, one range up above the high threshold, no change otherwise
OneStep(pu, sv, pv) ==
    IF BelowLow(pu, sv) THEN Rank(pv) = Rank(pu) - 1
    ELSE IF AboveHigh(pu, sv) THEN Rank(pv) = Rank(pu) + 1
    ELSE pv = pu

\* C19 as stated: while the readings of an auto-ranging channel alternate
\* around one switch threshold of the range the channel is in, the range
\* changes at most once.  Violated: around 200 mV in the 1M range the
\* reading 199 switches to 50K and the next reading, 200, is below the 244
\* of the 50K range and switches to 1K; likewise around 2750 in the 1K range
C19_AtMostOneChange ==
    band # 0 =>
        /\ trail2[1] = Owner(band) => Changes(trail2) <= 1
        /\ trail3[1] = Owner(band) => Changes(trail3) <= 1

\* C19, amended: while the readings of TAN2 and TAN3 alternate around one
\* switch threshold, a channel never returns to a range it has left (so the
\* range does not toggle), it changes range at most once around 244 and
\* 2100 and at most twice around 200 and 2750; and every call of
\* updateAdcReadings moves a channel by exactly one range when the reading
\* is beyond a threshold of its current range and leaves it otherwise
C19_NoChatter ==
    /\ [](band # 0 =>
            /\ NoReturn(trail2) /\ NoReturn(trail3)
            /\ Changes(trail2) <= (IF band \in {244, 2100} THEN 1 ELSE 2)
            /\ Changes(trail3) <= (IF band \in {244, 2100} THEN 1 ELSE 2))
    /\ [][ band' = band =>
              /\ OneStep(temp2_pu, svLast'[3], temp2_pu')
              /\ OneStep(temp3_pu, svLast'[4], temp3_pu') ]_vars

\* readings alternating around 200 mV have taken TAN2 from 1M to 50K to 1K,
\* where it stays, and TAN3 later on the same way
C19_Witness ==
    /\ band = 200
    /\ trail2 = <<1000, 50, 1, 1>>
    /\ trail3 = <<1000, 1000, 50, 1>>

\* C21: AutoRefreshTime is always in [0, 900), and a command that sets the
\* refresh interval to a number replaces the interval by that number if it is
\* in [0, 900) and leaves the interval unchanged if it is negative or >= 900.
\* Violated: of refreshTSet=1000 the code reads the first three characters
\* only and sets the interval to 100
C21_RefreshInRange ==
    /\ [](AutoRefreshTime \in 0 .. 899)
    /\ [][ (nCmds' # nCmds /\ wpc' = "idle" /\ rText' # <<>>) =>
              AutoRefreshTime' = IF RefreshAccepted(ToInt(rText'))
                                   THEN ToInt(rText') ELSE AutoRefreshTime ]_vars

\* C22: whenever no command is being applied, the persistent store holds the
\* settings in memory: the EEPROM byte of the unit equals ThermoUnit, and the
\* refresh interval a restart restores equals AutoRefreshTime.  Violated: the
\* interval is kept in memory only, a restart restores 60
C22_SettingsPersisted ==
    wpc = "idle" =>
        /\ eeUnit = ThermoUnit
        /\ AutoRefreshBoot = AutoRefreshTime

\* C23: the first record a run appends (the append made for the first
\* deadline of the run, none appended in the run before) lands at index 0,
\* also in a run that a start command begins after a stop with no reset in
\* between.  Violated:
\* the start command leaves vDataArrayIdx alone, the first record of the new
\* run is stored behind the records of the run before
C23_RunBeginsAtIndexZero ==
    [][ (/\ dpc = "rec" /\ dpc' = "inc"
         /\ hK = 0
         /\ dTrt = (IF hT = -1 THEN 0 ELSE hT + MEAS_INTERVAL)) =>
            vDataArrayIdx = 0 ]_vars

\* C28: the statement TimeReadTick += MEAS_INTERVAL that follows an append
\* leaves TimeReadTick at its previous value plus MEAS_INTERVAL, and in a run
\* a start command began at tick T the deadline at the k-th append is
\* T + k * MEAS_INTERVAL.  Violated: a start command applied between the
\* append and the += (the run having stopped in between) sets the deadline
\* to T + MEAS_INTERVAL, and the += then moves it on from there or from the
\* value read before
C28_DeadlineAdvance ==
    [][ /\ (dpc = "adv" /\ dpc' = "wait") =>
                TimeReadTick' = TimeReadTick + MEAS_INTERVAL
        /\ (dpc = "rec" /\ dpc' = "inc" /\ hT # -1) =>
                TimeReadTick = hT + (hK + 1) * MEAS_INTERVAL
      ]_vars

\* C24: two run-state commands take effect in the order the web task
\* applies them.  When a start that follows a reset has been applied, the
\* state is Running, the length 0 and TimeReadTick the tick the start read
\* plus MEAS_INTERVAL; when a reset that follows a start has been applied,
\* the state is Stopped, the length 0 and the tick 0.  Violated: an append
\* in progress while the commands are applied stores its index, its Stopped
\* and its deadline over theirs
C24_CommandOrder ==
    /\ (wpc = "done" /\ wChar = "1" /\ hPrev = "3") =>
            /\ runState = RUN_STATE_RUN
            /\ vDataArrayIdx = 0
            /\ TimeReadTick = hT + MEAS_INTERVAL
    /\ (wpc = "done" /\ wChar = "3" /\ hPrev = "1") =>
            /\ runState = RUN_STATE_STOP
            /\ vDataArrayIdx = 0
            /\ timetickCounter = 0

\* the order of the statements of one pass of the loop of dataTestProcess
LoopEdges ==
    { <<"wait", "adc">>, <<"adc", "deadline">>,
      <<"deadline", "runstate">>, <<"deadline", "wait">>,
      <<"runstate", "rec">>, <<"runstate", "wait">>,
      <<"rec", "inc">>, <<"inc", "full">>, <<"full", "adv">>, <<"adv", "wait">> }

\* C27: a wake-up of the acquisition loop goes on to its test of runState
\* exactly if it finds TimeReadTick <= timetickCounter, and from there to the
\* append exactly if it finds runState not Stopped; the records and the
\* length change in the append only, which a wake-up passes at most once and
\* which stores the four live temperatures at the current length; a wake-up
\* that finds runState Stopped returns to the wait and changes neither the
\* buffer nor TimeReadTick.
C27_WakeUpAppends ==
    [][ /\ dpc' # dpc => <<dpc, dpc'>> \in LoopEdges
        /\ (dpc = "deadline" /\ dpc' # dpc) =>
                ((dpc' = "runstate") <=> (TimeReadTick <= timetickCounter))
        /\ (dpc = "runstate" /\ dpc' # dpc) =>
                ((dpc' = "rec") <=> (runState # RUN_STATE_STOP))
        /\ (dpc = "runstate" /\ dpc' # dpc /\ runState = RUN_STATE_STOP) =>
                UNCHANGED <<arrays, vDataArrayIdx, TimeReadTick>>
        /\ (dpc' # dpc /\ dpc \notin {"rec", "inc", "adv"}) =>
                UNCHANGED <<arrays, vDataArrayIdx, TimeReadTick>>
        /\ (dpc = "rec" /\ dpc' = "inc" /\ vDataArrayIdx \in Slots) =>
                RecordAt(vDataArrayIdx)' = <<temp0C, temp1C, temp2C, temp3C>>
      ]_vars

\* a wake-up in the state 4 (runStartSet=4), neither Stopped nor Running,
\* has appended the live temperatures as record 0
C27_Witness ==
    /\ dpc = "inc"
    /\ runState = 4
    /\ vDataArrayIdx = 0
    /\ temp1C # 0
    /\ RecordAt(0) = <<temp0C, temp1C, temp2C, temp3C>>

\* C29: a wake-up that finds timetickCounter at the value the wake-up before
\* found (no tick in between) does not call updateAdcReadings: the live
\* temperatures, the ranges, the pull pins and the readings stay as they
\* are.  Violated: LastTimeTick is never assigned, the test does not compare
\* with the tick of the wake-up before, and the channels are sampled again
C29_NoTickNoSample ==
    [][ (dpc = "adc" /\ dpc' = "deadline" /\ hLast = timetickCounter) =>
            UNCHANGED <<temps, adcVars>> ]_vars

\* C30: the wait of the acquisition loop can always return, notification or
\* not; no step of the loop writes timetickCounter; and from a moment at
\* which the run is on, the buffer not full and the tick has passed k
\* deadlines, each of the next k wake-ups appends exactly one record, until
\* the buffer is full: after j <= k wake-ups j records have been appended,
\* or fewer only because the buffer filled and the run stopped.
C30_NoSampleLost ==
    /\ [](dpc = "wait" => ENABLED DataTake)
    /\ [][dpc' # dpc => timetickCounter' = timetickCounter]_vars
    /\ []((dpc = "wait" /\ hNeed >= 0 /\ hW <= hNeed) =>
            \/ hK = hW
            \/ /\ hK < hW
               /\ vDataArrayIdx = DATA_ARRAY_SIZE
               /\ runState = RUN_STATE_STOP)

\* two deadlines had passed when no wake-up had come; the two wake-ups that
\* followed have appended one record each
C30_Witness ==
    /\ dpc = "wait"
    /\ hNeed = 2 /\ hW = 2 /\ hK = 2
    /\ ~notifyPending

\* C25: a connected client from which no byte is read for WDT_TIMEOUT ticks
\* is disconnected by the next step of the connection loop; the step that
\* reads a byte clears g_wdt_cnt; the loop is left on the timeout only after
\* WDT_TIMEOUT ticks without a byte, so a client that keeps sending is not
\* timed out; and leaving the loop changes nothing of the sampling state.
C25_IdleTimeout ==
    /\ [][ (cpc = "open" /\ hQuiet >= WDT_TIMEOUT
            /\ <<cpc, isWaitPkt, header>>' # <<cpc, isWaitPkt, header>>)
           => cpc' = "sent" ]_vars
    /\ [][ Len(header') > Len(header) => g_wdt_cnt' = 0 ]_vars
    /\ [][ (cpc = "open" /\ cpc' = "sent" /\ TimedOut(g_wdt_cnt))
           => hQuiet >= WDT_TIMEOUT ]_vars
    /\ [][ (cpc = "open" /\ cpc' = "sent")
           => UNCHANGED <<timetickCounter, TimeReadTick, runState, vDataArrayIdx,
                          arrays, temps, dataLocals, notifyPending>> ]_vars

\* a step of the web task
WebStep == <<webLocals, readVars, cpc, isWaitPkt, header>>' #
           <<webLocals, readVars, cpc, isWaitPkt, header>>

\* what a read request leaves alone
Kept == <<runState, timetickCounter, TimeReadTick, vDataArrayIdx, arrays,
          ThermoUnit, AutoRefreshTime>>

C31_OnlyBufferFullStops ==
    /\ [][ (dpc' # dpc /\ runState' # runState)
           => (runState' = RUN_STATE_STOP /\ dpc = "full"
               /\ vDataArrayIdx = DATA_ARRAY_SIZE) ]_vars
    /\ [][ (dpc' = dpc /\ runState' # runState)
           => wpc \in {"set", "rst_state"} ]_vars
    /\ [][ (wpc = "set" /\ wpc' = "done" /\ hFull)
           => runState' = RUN_STATE_STOP ]_vars

\* C32: an expiry adds exactly one to timetickCounter and exactly one to
\* g_wdt_cnt; the reset command, which takes timerMux, never runs between
\* the two increments; timetickCounter is the number of expiries since boot
\* or since its last reset, and g_wdt_cnt, outside onTimer, the number of
\* expiries completed since the web task last cleared it.
C32_CountersTogether ==
    /\ [][ timetickCounter' # timetickCounter
           => (timetickCounter' = 0 \/ timetickCounter' = timetickCounter + 1) ]_vars
    /\ [][ (tReg # -1 /\ tReg' = -1) => g_wdt_cnt' = g_wdt_cnt + 1 ]_vars
    /\ [][ (wpc = "rst_tick" /\ wpc' # wpc) => tReg = -1 ]_vars
    /\ [](timetickCounter = hTicks)
    /\ [](tReg = -1 => g_wdt_cnt = hQuiet)

\* C33: a take leaves no signal pending however many were given since the
\* take before, so the wait that follows returns on a signal only if a new
\* one has been given, and else on the timeout; a signal is pending exactly
\* if one was given since the last take; and an expiry before the
\* acquisition task exists increments both counters and gives no signal.
C33_SignalsCoalesce ==
    /\ [][ (dpc = "wait" /\ dpc' = "adc") => ~notifyPending' ]_vars
    /\ [](notifyPending <=> hGiven >= 1)
    /\ [][ (dpc = "none" /\ timetickCounter' # timetickCounter)
           => /\ timetickCounter' = timetickCounter + 1
              /\ g_wdt_cnt' = g_wdt_cnt + 1
              /\ ~notifyPending' ]_vars

\* C33 witness: an expiry came before the task existed, and since the last
\* take two signals have been given while the loop was busy
C33_Witness ==
    /\ hGiven >= 2 /\ notifyPending
    /\ dpc \notin {"none", "wait"}
    /\ timetickCounter > hGiven + 1

\* one call of updateAdcReadings took a channel from the range pu to the
\* range pv on the reading sv and left the temperature t: the range moved by
\* at most one place in 1K, 50K, 1M, down only on a reading below the low
\* threshold of pu and up only on one above its high threshold, and t is the
\* conversion of sv with the pull-up of pu
RangeStep(pu, sv, pv, t) ==
    /\ Rank(pv) - Rank(pu) \in {-1, 0, 1}
    /\ BelowLow(pu, sv) => Rank(pv) = Rank(pu) - 1
    /\ AboveHigh(pu, sv) => Rank(pv) = Rank(pu) + 1
    /\ Rank(pv) < Rank(pu) => BelowLow(pu, sv)
    /\ Rank(pv) > Rank(pu) => AboveHigh(pu, sv)
    /\ t = convVoltageToTempTP10_pu(sv, PullUp(pu))

\* C34: one call of updateAdcReadings changes the range of TAN2 and of TAN3
\* at most once and only to an adjacent range, to the next lower pull-up on
\* a low reading and to the next higher on a high reading, and the
\* temperature of the sample is computed with the range before the switch.
C34_AdjacentRangeOnly ==
    [][ band' = band =>
          /\ RangeStep(temp2_pu, svLast'[3], temp2_pu', temp2C')
          /\ RangeStep(temp3_pu, svLast'[4], temp3_pu', temp3C') ]_vars

\* C34 witness: a reading below 244 mV has taken TAN2 from 50K to 1K and a
\* reading above 2100 mV TAN3 from 50K to 1M in one call, and both
\* temperatures are those of the 50K range, which differ from those of the
\* range after the switch
C34_Witness ==
    /\ svLast[3] >= 100 /\ svLast[3] < 244 /\ temp2_pu = 1
    /\ temp2C = convVoltageToTempTP10_pu(svLast[3], PullUp(50))
    /\ temp2C # convVoltageToTempTP10_pu(svLast[3], PullUp(1))
    /\ svLast[4] > 2100 /\ svLast[4] <= 3000 /\ temp3_pu = 1000
    /\ temp3C = convVoltageToTempTP10_pu(svLast[4], PullUp(50))
    /\ temp3C # convVoltageToTempTP10_pu(svLast[4], PullUp(1000))

\* C35: temp2_pu and temp3_pu are each 1, 50 or 1000 in every reachable
\* state, both are 50 at the start, and the range of a channel changes only
\* in a call of updateAdcReadings whose reading of that channel is beyond a
\* threshold of its range, whatever the other channel reads.
C35_RangeTags ==
    /\ temp2_pu = 50 /\ temp3_pu = 50
    /\ [](temp2_pu \in RangeTags /\ temp3_pu \in RangeTags)
    /\ [][ temp2_pu' # temp2_pu
             => /\ band' = band
                /\ BelowLow(temp2_pu, svLast'[3]) \/ AboveHigh(temp2_pu, svLast'[3]) ]_vars
    /\ [][ temp3_pu' # temp3_pu
             => /\ band' = band
                /\ BelowLow(temp3_pu, svLast'[4]) \/ AboveHigh(temp3_pu, svLast'[4]) ]_vars

\* C35 witness: of two calls with readings around 244 mV the first has
\* switched TAN3 and left TAN2 in its range, the second has switched TAN2
\* and left TAN3
C35_Witness ==
    /\ band = 244
    /\ trail2 = <<50, 50, 1>>
    /\ trail3 = <<50, 1, 1>>

\* the pull pins p1k and p50k of a channel are as its range tag pu says
PinsMatch(pu, p1k, p50k) ==
    /\ p1k = "OUTPUT_HIGH" <=> pu = 1
    /\ p50k = "INPUT" <=> pu = 1000
    /\ ~(p1k = "OUTPUT_HIGH" /\ p50k = "INPUT")

StopStep ==
    /\ wpc' # wpc
    /\ (IF wpc = "idle" THEN wChar' ELSE wChar) = "0"

\* what a stop leaves alone
Sampled == <<vDataArrayIdx, arrays, timetickCounter, TimeReadTick>>

ConfigStep == nCmds' # nCmds /\ wpc' = wpc

\* C38: a unit or refresh command changes neither runState, timetickCounter,
\* TimeReadTick, vDataArrayIdx nor a stored record; an append stores the live
\* temperatures as they are, whatever the unit; a row is sent with the
\* stored values themselves unless the unit is Fahrenheit, and with their
\* conversion if it is; and a unit command leaves the unit Celsius or
\* Fahrenheit, so that after Fahrenheit and back every record is sent as it
\* was sent before.
C38_UnitIsDisplayOnly ==
    /\ [][ ConfigStep =>
             UNCHANGED <<runState, timetickCounter, TimeReadTick, vDataArrayIdx,
                         arrays>> ]_vars
    /\ [][ (dpc = "rec" /\ dpc' = "inc" /\ vDataArrayIdx \in Slots) =>
             RecordAt(vDataArrayIdx)' = <<temp0C, temp1C, temp2C, temp3C>> ]_vars
    /\ [][ (rpc = "csv_row" /\ rpc' = "csv_test") =>
             rRow' = <<rI * MEAS_INTERVAL>> \o
                     (IF ThermoUnit = CONFIG_USE_UNIT_F
                        THEN [k \in 1 .. 4 |->
                                ToInt16(IntDiv(RecordAt(rI)[k] * 9, 5) + 320)]
                        ELSE RecordAt(rI)) ]_vars
    /\ [][ ThermoUnit' # ThermoUnit =>
             /\ ConfigStep
             /\ ThermoUnit' \in {0, CONFIG_USE_UNIT_F} ]_vars

\* C38 witness: the unit was changed to Fahrenheit and back to Celsius, a
\* record has been appended, and the csv data sent after that has record 0
\* as it is stored
C38_Witness ==
    /\ hK = 2 /\ nCmds = 2 /\ ThermoUnit = 0
    /\ vDataArrayIdx >= 1
    /\ rpc = "csv_test" /\ rI = 1
    /\ rRow = <<0, 250, 251, 252, 253>>

\* C39: when printTempPlotData has sent both lines of a trace, the x line
\* and the y line have the same number of points and the points are those of
\* the same records, also when a record was appended between the two loops.
\* Violated: each loop reads vDataArrayIdx again at every test, so a record
\* appended after the first loop has ended gets a y point and no x point
C39_SamePoints ==
    rpc = "plot_end" =>
        /\ Len(pX) = Len(pY)
        /\ \A k \in 1 .. Len(pX) : pY[k][1] = pX[k]

====
